---- MODULE Spec2Model ----
(***************************************************************************)
(* State-machine model of the terrain game: the GameEngine tick (physics,  *)
(* chunk streaming, day/night clock, stats snapshot), the WorldGenerator   *)
(* (height field, biome classification, chunk contents), the App's scan    *)
(* handler and the lore service.                                           *)
(*                                                                         *)
(* Numbers.  The program computes in IEEE doubles.  The model computes in  *)
(* fixed point: lengths, heights, velocities (per second), stamina and     *)
(* noise values are integers counting thousandths (Scale), time is in      *)
(* milliseconds, timeOfDay counts millionths of a day.  Division rounds    *)
(* toward zero, the square root rounds down.                               *)
(***************************************************************************)
EXTENDS Integers, Sequences, FiniteSets, TLC

(* ------------------------------------------------------------------ *)
(* Program constants                                                    *)
(* ------------------------------------------------------------------ *)
CHUNK_SIZE == 100
RENDER_DISTANCE == 5
STAMINA_MAX == 100
FLIGHT_COST == 25
REGEN_RATE == 15

Scale == 10 * 100
ChunkLen == CHUNK_SIZE * Scale
\* WATER_LEVEL = 1.5
WATER_LEVEL == (3 * Scale) \div 2
StaminaMax == STAMINA_MAX * Scale
\* playerRadius = 0.7
playerRadius == (7 * Scale) \div 10
\* the eye-height offset 1.6 of the ground resolution
EyeHeight == (16 * Scale) \div 10
\* groundHeight when the raycast misses: -200
NoGround == -(200 * Scale)
\* the POI distance 25
PoiRange == 25 * Scale
\* one day in timeOfDay units (timeOfDay = 1.0)
DayLen == Scale * Scale

KEYS == [FORWARD |-> "KeyW", BACKWARD |-> "KeyS", LEFT |-> "KeyA", RIGHT |-> "KeyD",
         JUMP |-> "Space", SPRINT |-> "ShiftLeft", SCAN |-> "KeyE"]

Biomes == {"Plains", "Forest", "Desert", "Snow", "Ocean", "Mountain", "Sakura Grove"}

\* null: a record no value of the model equals
Null == [null |-> TRUE]

(* ------------------------------------------------------------------ *)
(* Arithmetic                                                           *)
(* ------------------------------------------------------------------ *)
Abs(a) == IF a < 0 THEN -a ELSE a
Max(a, b) == IF a >= b THEN a ELSE b
Min(a, b) == IF a <= b THEN a ELSE b
\* a / b rounded toward zero (b > 0)
Div(a, b) == IF a >= 0 THEN a \div b ELSE -((-a) \div b)
SetMax(S) == CHOOSE m \in S : \A n \in S : n <= m
\* Math.floor(v / CHUNK_SIZE)
ChunkOf(v) == v \div ChunkLen

RECURSIVE SqrtSearch(_, _, _)
SqrtSearch(n, lo, hi) ==
    IF lo >= hi THEN lo
    ELSE LET mid == (lo + hi + 1) \div 2
         IN  IF mid * mid <= n THEN SqrtSearch(n, mid, hi) ELSE SqrtSearch(n, lo, mid - 1)
\* Math.sqrt, rounded down; the argument is below 46340^2
Sqrt(n) == SqrtSearch(n, 0, 46340)

(* ------------------------------------------------------------------ *)
(* The world: WorldGenerator                                            *)
(* ------------------------------------------------------------------ *)
VARIABLES
    world         \* the noise generators of this process and the scatter points they give

\* A world fixes what createNoise2D() drew for this process, in the region a
\* run stays in: the continent noise, the three samples of noise2D that
\* getHeight and getBiome read (ridge 0.004, roughness 0.03, temperature
\* 0.0015), each in thousandths of [-1, 1], and the scatter sample points of
\* the chunks (local position after jitter, and rVal = seededRandom(wx * wz)
\* in thousandths).  Simplex noise is 0 at the origin whatever the seed.
continentNoise(x, z) == IF x = 0 /\ z = 0 THEN 0 ELSE world.cont
ridgeNoise(x, z) == IF x = 0 /\ z = 0 THEN 0 ELSE world.ridge
roughNoise(x, z) == IF x = 0 /\ z = 0 THEN 0 ELSE world.rough
tempNoise(x, z) == IF x = 0 /\ z = 0 THEN 0 ELSE world.temp

\* getHeight: base, the continent noise raised by 0.15 (land where positive)
BaseOf(cont) == cont + (15 * Scale) \div 100

\* getHeight before the coastline blend, on given noise values
PreBlend(cont, ridgeN, roughN) ==
    LET base == BaseOf(cont)
        ridge == Scale - Abs(ridgeN)
        ridge3 == Div(ridge * ridge * ridge, Scale * Scale)
        land == Max(base * 15 + Div(ridge3 * 45 * base, Scale) + Div(roughN * 3, 2),
                    WATER_LEVEL + Scale \div 2)
        ocean == Max(base * 20, -(15 * Scale))
    IN  IF base > 0 THEN land ELSE ocean

\* a blend that lands on the beach height itself (lerp factor 1)
CoastBlendFlat(h) ==
    IF h > WATER_LEVEL - Scale /\ h < WATER_LEVEL + 2 * Scale
    THEN WATER_LEVEL + Scale \div 2
    ELSE h

\* getHeight: the coastline blend, lerp(h, WATER_LEVEL + 0.5, 0.4) near the water
CoastBlend(h) ==
    IF h > WATER_LEVEL - Scale /\ h < WATER_LEVEL + 2 * Scale
    THEN h + Div((WATER_LEVEL + Scale \div 2 - h) * 4, 10)
    ELSE h

\* getHeight on given noise values
HeightOf(cont, ridgeN, roughN) == CoastBlend(PreBlend(cont, ridgeN, roughN))

getHeight(x, z) == HeightOf(continentNoise(x, z), ridgeNoise(x, z), roughNoise(x, z))

\* a classification that tries the Snow band before the Mountain rule
BiomeOfSnowFirst(temp, height, draw) ==
    IF height < WATER_LEVEL + Scale \div 5 THEN "Ocean"
    ELSE IF height > 30 * Scale /\ draw THEN "Snow"
    ELSE IF height > 45 * Scale THEN "Mountain"
    ELSE IF temp < -((4 * Scale) \div 10) THEN "Desert"
    ELSE IF temp > Scale \div 2 THEN "Forest"
    ELSE IF temp > Scale \div 5 THEN "Sakura Grove"
    ELSE "Plains"

\* getBiome; draw is the outcome of Math.random() > 0.5
BiomeOf(temp, height, draw) ==
    IF height < WATER_LEVEL + Scale \div 5 THEN "Ocean"
    ELSE IF height > 45 * Scale THEN "Mountain"
    ELSE IF height > 30 * Scale /\ draw THEN "Snow"
    ELSE IF temp < -((4 * Scale) \div 10) THEN "Desert"
    ELSE IF temp > Scale \div 2 THEN "Forest"
    ELSE IF temp > Scale \div 5 /\ temp <= Scale \div 2 THEN "Sakura Grove"
    ELSE "Plains"

getBiome(x, z, height, draw) == BiomeOf(tempNoise(x, z), height, draw)

\* seededRandom(chunkX * 49297 + chunkZ * 92713) in hundred-thousandths, for
\* chunkX, chunkZ in TableLo .. TableLo + 17 (row chunkX, column chunkZ):
\* floor(100000 * frac(sin(seed) * 10000)).
TableLo == 0 - 9
SeededRandomTable == <<
    <<91676, 60378, 40515, 75610, 20587, 85701, 34352, 43088, 96298, 77552, 78847,  9281, 91143,   462, 52342, 92896, 56252, 23653>>,
    <<83980, 99880,  8465, 69849, 72592, 31805, 81616, 12715, 95779, 13705, 54974, 20753, 14296, 22735, 90466,  4673, 42187, 46996>>,
    <<33587, 26290, 72959, 20496, 16871, 92892, 95395, 65228, 78825, 21912, 40391, 22017, 22328, 86671,   334, 33345, 66664, 94418>>,
    <<81715, 74554, 59814, 56883, 93826,  8582, 37548, 99090, 33024, 49759, 52224, 28722,   272, 44834, 40497,  4227, 45554, 94931>>,
    <<42994, 82576, 96282, 40232, 56849, 77033, 98107, 14250, 39795, 87048, 72784, 58312, 32972,   982, 76335, 47704,  3966, 66932>>,
    <<37882, 87146, 33784, 31948, 83269,  7919, 20895, 26330, 21848, 79754, 32626, 85922, 63828, 29714, 34294, 21941, 66638, 56920>>,
    <<29742, 40054, 76808, 51704, 16760, 63051,  6718, 59281, 75847, 33005, 28687, 74893, 33661, 37473, 60859, 33672, 59496, 41021>>,
    <<83042, 90873, 62287, 92238, 66158,  9749, 85022, 80058, 87708, 65221,  8858, 57192, 40981, 74173, 98195, 61288, 34514, 85458>>,
    <<38006, 61158,  5839, 29147, 28430, 93249,  3755, 20015, 98626, 65678, 87042, 27259, 80264,  7645, 75149, 36252, 85476, 50320>>,
    <<21840, 13064, 13239, 44455, 25278,  8178, 20421, 55619, 79579,     0, 20420, 44380, 79578, 91821, 74721, 55544, 86760, 86935>>,
    <<41630, 49679, 14523, 63747, 24850, 92354, 19735, 72740, 12957, 34321,  1373, 79984, 96244,  6750, 71569, 70852, 94160, 38841>>,
    <<24125, 14541, 65485, 38711,  1804, 25826, 59018, 42807, 91141, 34778, 12291, 19941, 14977, 90250, 33841,  7761, 37712,  9126>>,
    <<14820, 58978, 40503, 66327, 39140, 62526, 66338, 25106, 71312, 66994, 24152, 40718, 93281, 36948, 83239, 48295, 23191, 59945>>,
    <<54294, 43079, 33361, 78058, 65705, 70285, 36171, 14077, 67373, 20245, 78151, 73669, 79104, 92080, 16730, 68051, 66215, 12853>>,
    <<34413, 33067, 96033, 52295, 23664, 99017, 67027, 41687, 27215, 12951, 60204, 85749,  1892, 22966, 43150, 59767,  3717, 17423>>,
    <<82931,  5068, 54445, 95772, 59502, 55165, 99727, 71277, 47775, 50240, 66975,   909, 62451, 91417,  6173, 43116, 40185, 25445>>,
    <<19517,  5581, 33335, 66654, 99665, 13328, 77671, 77982, 59608, 78087, 21174, 34771,  4604,  7107, 83128, 79503, 27040, 73709>>,
    <<62595, 53003, 57812, 95326,  9533, 77264, 85703, 79246, 45025, 86294,  4220, 87284, 18383, 68194, 27407, 30150, 91534,   119>>
>>
seededRandomOfChunk(chunkX, chunkZ) ==
    SeededRandomTable[chunkX - TableLo + 1][chunkZ - TableLo + 1]

\* the scale Math.random() gives a pebble (0.2 + r * 0.3) and a boulder (0.8 + r * 1.2)
PebbleScale == (35 * Scale) \div 100
BoulderScale == (14 * Scale) \div 10

\* the scatter rules with the pebble rule applying in Snow as well
ScatterRulePebbleInSnow(rVal, biome) ==
    IF rVal < (15 * Scale) \div 100 /\ biome # "Ocean"
        THEN [kind |-> "pebble", r |-> 0]
    ELSE IF biome = "Forest" /\ rVal > (4 * Scale) \div 10
        THEN [kind |-> IF rVal > (75 * Scale) \div 100 THEN "pine" ELSE "oak",
              r |-> (8 * Scale) \div 10]
    ELSE IF biome = "Sakura Grove" /\ rVal > (65 * Scale) \div 100
        THEN [kind |-> "sakura", r |-> (6 * Scale) \div 10]
    ELSE IF biome = "Plains" /\ rVal > (97 * Scale) \div 100
        THEN [kind |-> "oak", r |-> (8 * Scale) \div 10]
    ELSE IF biome = "Desert" /\ rVal > (96 * Scale) \div 100
        THEN [kind |-> "cactus", r |-> (5 * Scale) \div 10]
    ELSE [kind |-> "none", r |-> 0]

\* What the scatter loop does at one sample point: the kind of object placed
\* and the radius of the obstacle registered (0: none).
ScatterRule(rVal, biome) ==
    IF rVal < (15 * Scale) \div 100 /\ biome # "Ocean" /\ biome # "Snow"
        THEN [kind |-> "pebble", r |-> 0]
    ELSE IF rVal < (3 * Scale) \div 100 /\ biome # "Ocean"
        THEN [kind |-> "boulder", r |-> Div(BoulderScale * 8, 10)]
    ELSE IF biome = "Forest" /\ rVal > (4 * Scale) \div 10
        THEN [kind |-> IF rVal > (75 * Scale) \div 100 THEN "pine" ELSE "oak",
              r |-> (8 * Scale) \div 10]
    ELSE IF biome = "Sakura Grove" /\ rVal > (65 * Scale) \div 100
        THEN [kind |-> "sakura", r |-> (6 * Scale) \div 10]
    ELSE IF biome = "Plains" /\ rVal > (97 * Scale) \div 100
        THEN [kind |-> "oak", r |-> (8 * Scale) \div 10]
    ELSE IF biome = "Desert" /\ rVal > (96 * Scale) \div 100
        THEN [kind |-> "cactus", r |-> (5 * Scale) \div 10]
    ELSE [kind |-> "none", r |-> 0]

\* one sample point of the scatter loop of chunk (chunkX, chunkZ)
ScatterAt(s, draw) ==
    LET wx == s.lx + s.cx * ChunkLen
        wz == s.lz + s.cz * ChunkLen
        y == getHeight(wx, wz)
    IN  IF y <= WATER_LEVEL + Scale \div 2
        THEN [kind |-> "skip", r |-> 0, x |-> wx, z |-> wz, y |-> y]
        ELSE [x |-> wx, z |-> wz, y |-> y] @@ ScatterRule(s.rVal, getBiome(wx, wz, y, draw))

\* the indices of the world's sample points that belong to a chunk, in loop order
SamplesOf(chunkX, chunkZ) ==
    SelectSeq([i \in 1..Len(world.samples) |-> i],
              LAMBDA i : world.samples[i].cx = chunkX /\ world.samples[i].cz = chunkZ)

RECURSIVE ScatterObstacles(_, _)
ScatterObstacles(idx, draws) ==
    IF idx = <<>> THEN <<>>
    ELSE LET o == ScatterAt(world.samples[Head(idx)], draws[Head(idx)])
         IN  (IF o.r > 0 THEN <<[x |-> o.x, z |-> o.z, r |-> o.r]>> ELSE <<>>)
                 \o ScatterObstacles(Tail(idx), draws)

RECURSIVE ScatterStones(_, _)
ScatterStones(idx, draws) ==
    IF idx = <<>> THEN <<>>
    ELSE LET o == ScatterAt(world.samples[Head(idx)], draws[Head(idx)])
         IN  (IF o.kind = "pebble"
              THEN <<[x |-> o.x, z |-> o.z, y |-> o.y, s |-> PebbleScale]>>
              ELSE IF o.kind = "boulder"
              THEN <<[x |-> o.x, z |-> o.z, y |-> o.y, s |-> BoulderScale]>>
              ELSE <<>>)
                 \o ScatterStones(Tail(idx), draws)

\* a monolith placed on the seeded draw alone, whatever the terrain height
MonolithAnyHeight(chunkX, chunkZ) ==
    IF seededRandomOfChunk(chunkX, chunkZ) > 97000
    THEN [x |-> chunkX * ChunkLen,
          y |-> getHeight(chunkX * ChunkLen, chunkZ * ChunkLen) - 3 * Scale,
          z |-> chunkZ * ChunkLen]
    ELSE Null

\* the monolith of a chunk: its mesh position (local origin, 3 below the
\* terrain), or Null
Monolith(chunkX, chunkZ) ==
    LET wx == chunkX * ChunkLen
        wz == chunkZ * ChunkLen
        hy == getHeight(wx, wz)
    IN  IF seededRandomOfChunk(chunkX, chunkZ) > 97000 /\ hy > WATER_LEVEL + 2 * Scale
        THEN [x |-> wx, y |-> hy - 3 * Scale, z |-> wz]
        ELSE Null

\* generateChunk: the obstacle list, the point-of-interest child of the mesh
\* and the rocks merged into the stone mesh.  draws[i] is the Math.random()
\* > 0.5 of getBiome at sample point i.
generateChunk(chunkX, chunkZ, draws) ==
    LET m == Monolith(chunkX, chunkZ)
        idx == SamplesOf(chunkX, chunkZ)
    IN  [obstacles |-> (IF m # Null THEN <<[x |-> m.x, z |-> m.z, r |-> 4 * Scale]>> ELSE <<>>)
                          \o ScatterObstacles(idx, draws),
         poi |-> m,
         stones |-> ScatterStones(idx, draws)]

(* ------------------------------------------------------------------ *)
(* GameEngine state                                                     *)
(* ------------------------------------------------------------------ *)
VARIABLES
    chunks,          \* Map key -> ChunkData: <<cx, cz>> -> [obstacles, poi, stones]
    colliders,       \* the meshes the ground raycast tests
    position,        \* player.position
    playerVelocity,
    playerOnGround,
    keysPressed,     \* the key codes whose flag is true
    stamina,
    timeOfDay,
    poiNearby,       \* world position of the point of interest in range, or Null
    pc,              \* where the running animate() call stands; "idle" between frames
    delta,           \* the delta of the running animate() call, ms
    phys,            \* the locals of the last updatePhysics call
    log,             \* the updates the running (or last) animate() call has made, in order
    frames,          \* animate() calls made
    keyEvents        \* key events handled

engineVars == <<chunks, colliders, position, playerVelocity, playerOnGround, keysPressed,
                stamina, timeOfDay, poiNearby, pc, delta, phys, log, frames,
                keyEvents>>

Vec(x, y, z) == [x |-> x, y |-> y, z |-> z]

\* the square window the load loop walks, in loop order (x outer, z inner)
WindowSeq(px, pz, dist) ==
    [i \in 1..((2 * dist + 1) * (2 * dist + 1)) |->
        <<px - dist + ((i - 1) \div (2 * dist + 1)), pz - dist + ((i - 1) % (2 * dist + 1))>>]
SeqToSet(s) == {s[i] : i \in 1..Len(s)}

(* ---------------- updateChunks ---------------- *)
\* the unload test with "and" for "or": a chunk is dropped only when it is far
\* on both axes
IsFarBoth(key, px, pz) ==
    Abs(key[1] - px) > RENDER_DISTANCE /\ Abs(key[2] - pz) > RENDER_DISTANCE

\* the unload test of one loaded chunk
IsFar(key, px, pz) ==
    Abs(key[1] - px) > RENDER_DISTANCE \/ Abs(key[2] - pz) > RENDER_DISTANCE

\* the colliders generateChunk returns: the terrain, and the stone mesh when
\* any rock was placed
ChunkColliders(key, data) ==
    {[key |-> key, kind |-> "terrain", stones |-> <<>>]}
        \cup (IF data.stones # <<>>
              THEN {[key |-> key, kind |-> "stones", stones |-> data.stones]} ELSE {})

\* worldPos.distanceTo(player.position) < 25
InPoiRange(p, pos) ==
    /\ Abs(p.x - pos.x) < PoiRange
    /\ Abs(p.y - pos.y) < PoiRange
    /\ Abs(p.z - pos.z) < PoiRange
    /\ (p.x - pos.x) * (p.x - pos.x) + (p.y - pos.y) * (p.y - pos.y)
           + (p.z - pos.z) * (p.z - pos.z) < PoiRange * PoiRange

\* the POI scan without the reset of poiNearby before the loop
ScanPOIStale(keys, table, pos, before) ==
    LET hits == {i \in 1..Len(keys) :
                    /\ keys[i] \in DOMAIN table
                    /\ table[keys[i]].poi # Null
                    /\ InPoiRange(table[keys[i]].poi, pos)}
    IN  [poiNearby |-> IF hits = {} THEN before ELSE table[keys[SetMax(hits)]].poi,
         hasPOI |-> hits # {}]

\* The reset of poiNearby and hasPOI and the POI scan of the load loop over
\* the keys in loop order: the last point of interest in range (or null) and
\* whether there was one.  before: poiNearby when updateChunks is entered.
ScanPOI(keys, table, pos, before) ==
    LET hits == {i \in 1..Len(keys) :
                    /\ keys[i] \in DOMAIN table
                    /\ table[keys[i]].poi # Null
                    /\ InPoiRange(table[keys[i]].poi, pos)}
    IN  [poiNearby |-> IF hits = {} THEN Null ELSE table[keys[SetMax(hits)]].poi,
         hasPOI |-> hits # {}]

\* a streaming update that loads the player's own chunk only
ChunksAfterOwnChunk(table, pos, draws) ==
    [k \in {<<ChunkOf(pos.x), ChunkOf(pos.z)>>} |->
        IF k \in DOMAIN table THEN table[k] ELSE generateChunk(k[1], k[2], draws)]

\* a streaming update that loads the window but unloads nothing
ChunksAfterNoUnload(table, pos, draws) ==
    LET window == SeqToSet(WindowSeq(ChunkOf(pos.x), ChunkOf(pos.z), RENDER_DISTANCE))
    IN  [k \in DOMAIN table \cup window |->
            IF k \in DOMAIN table THEN table[k] ELSE generateChunk(k[1], k[2], draws)]

\* the chunk table and collider list after the unload and load loops
ChunksAfter(table, pos, draws) ==
    LET px == ChunkOf(pos.x)
        pz == ChunkOf(pos.z)
        kept == {k \in DOMAIN table : ~IsFar(k, px, pz)}
        window == SeqToSet(WindowSeq(px, pz, RENDER_DISTANCE))
    IN  [k \in kept \cup window |->
            IF k \in kept THEN table[k] ELSE generateChunk(k[1], k[2], draws)]

\* a streaming update that keeps the colliders of the chunks it unloads
CollidersAfterKeepUnloaded(table, colls, pos, after) ==
    LET px == ChunkOf(pos.x)
        pz == ChunkOf(pos.z)
        gone == {k \in DOMAIN table : IsFar(k, px, pz)}
        new == DOMAIN after \ (DOMAIN table \ gone)
    IN  colls \cup UNION {ChunkColliders(k, after[k]) : k \in new}

\* the collider list after the unload and load loops
CollidersAfter(table, colls, pos, after) ==
    LET px == ChunkOf(pos.x)
        pz == ChunkOf(pos.z)
        gone == {k \in DOMAIN table : IsFar(k, px, pz)}
        new == DOMAIN after \ (DOMAIN table \ gone)
    IN  {c \in colls : c.key \notin gone}
            \cup UNION {ChunkColliders(k, after[k]) : k \in new}

(* ---------------- updatePhysics ---------------- *)
\* 1 / sqrt(2), the component of a normalized diagonal move direction
InvSqrt2 == (7071 * Scale) \div 10000

\* moveDir: forward is (0, 0, -1) and right is (1, 0, 0) (the yaw the player
\* is constructed with), summed over the held direction keys and normalized
MoveDir(keys) ==
    LET sx == (IF KEYS.RIGHT \in keys THEN 1 ELSE 0) - (IF KEYS.LEFT \in keys THEN 1 ELSE 0)
        sz == (IF KEYS.BACKWARD \in keys THEN 1 ELSE 0) - (IF KEYS.FORWARD \in keys THEN 1 ELSE 0)
        len == IF sx # 0 /\ sz # 0 THEN InvSqrt2 ELSE Scale
    IN  [x |-> sx * len, z |-> sz * len]

\* a push of half the penetration depth
checkCollisionHalfPush(next, obs) ==
    LET dx == next.x - obs.x
        dz == next.z - obs.z
        minDist == playerRadius + obs.r
        distSq == dx * dx + dz * dz
        dist == Sqrt(distSq)
    IN  IF Abs(dx) < minDist /\ Abs(dz) < minDist /\ distSq < minDist * minDist /\ distSq > 1
        THEN [next EXCEPT !.x = @ + Div(dx * (minDist - dist), 2 * dist),
                          !.z = @ + Div(dz * (minDist - dist), 2 * dist)]
        ELSE next

\* checkCollision: the tentative position after one obstacle
checkCollision(next, obs) ==
    LET dx == next.x - obs.x
        dz == next.z - obs.z
        minDist == playerRadius + obs.r
    IN  IF Abs(dx) >= minDist \/ Abs(dz) >= minDist THEN next
        ELSE LET distSq == dx * dx + dz * dz
                 dist == Sqrt(distSq)
                 push == minDist - dist
             IN  IF distSq < minDist * minDist /\ distSq > 1
                 THEN [next EXCEPT !.x = @ + Div(dx * push, dist),
                                   !.z = @ + Div(dz * push, dist)]
                 ELSE next

RECURSIVE CollideAll(_, _)
CollideAll(next, obstacles) ==
    IF obstacles = <<>> THEN next
    ELSE CollideAll(checkCollision(next, Head(obstacles)), Tail(obstacles))

\* the obstacles of the 3x3 chunk neighbourhood, in the order the loops visit them
RECURSIVE ObstaclesIn(_, _)
ObstaclesIn(keys, table) ==
    IF keys = <<>> THEN <<>>
    ELSE (IF Head(keys) \in DOMAIN table THEN table[Head(keys)].obstacles ELSE <<>>)
             \o ObstaclesIn(Tail(keys), table)

\* the obstacles of the player's own chunk only
NearObstaclesOwnChunk(pos, table) ==
    ObstaclesIn(WindowSeq(ChunkOf(pos.x), ChunkOf(pos.z), 0), table)

\* the obstacles updatePhysics resolves against
NearObstacles(pos, table) == ObstaclesIn(WindowSeq(ChunkOf(pos.x), ChunkOf(pos.z), 1), table)

\* what the ray cast straight down at (x, z) hits on one collider: the set of
\* heights (empty: a miss).  A terrain mesh spans CHUNK_SIZE around its
\* chunk's origin and carries getHeight; a rock of scale s is taken as a disc
\* of radius s whose top is s above the terrain.
RayHits(c, x, z) ==
    IF c.kind = "terrain"
    THEN IF /\ Abs(x - c.key[1] * ChunkLen) <= ChunkLen \div 2
            /\ Abs(z - c.key[2] * ChunkLen) <= ChunkLen \div 2
         THEN {getHeight(x, z)} ELSE {}
    ELSE {c.stones[i].y + c.stones[i].s : i \in
             {j \in 1..Len(c.stones) :
                 /\ Abs(x - c.stones[j].x) <= c.stones[j].s
                 /\ Abs(z - c.stones[j].z) <= c.stones[j].s
                 /\ (x - c.stones[j].x) * (x - c.stones[j].x)
                      + (z - c.stones[j].z) * (z - c.stones[j].z)
                        <= c.stones[j].s * c.stones[j].s}}

\* intersects[0].point.y: the nearest hit below y = 150, over all colliders
Raycast(colls, x, z) ==
    LET hits == {h \in UNION {RayHits(c, x, z) : c \in colls} : h <= 150 * Scale}
    IN  [hit |-> hits # {}, groundHeight |-> IF hits # {} THEN SetMax(hits) ELSE NoGround]

\* a sprint that drains at the full flight cost
StaminaStepFullCost(stam, isSprinting, d) ==
    IF isSprinting THEN Max(0, stam - FLIGHT_COST * d)
    ELSE IF stam < StaminaMax THEN Min(StaminaMax, stam + REGEN_RATE * d)
    ELSE stam

\* stamina after the sprint drain or the regeneration
StaminaStep(stam, isSprinting, d) ==
    IF isSprinting THEN Max(0, stam - Div(FLIGHT_COST * d * 4, 10))
    ELSE IF stam < StaminaMax THEN Min(StaminaMax, stam + REGEN_RATE * d)
    ELSE stam

\* the jump rule with a launch that adds 18 to the velocity
JumpStepLaunchAdds(vy, stam, jump, onGround, d) ==
    IF ~jump THEN [vy |-> vy, stamina |-> stam, lift |-> FALSE]
    ELSE IF onGround THEN [vy |-> vy + 18 * Scale, stamina |-> stam, lift |-> FALSE]
    ELSE IF stam > 5 * Scale
        THEN [vy |-> vy + 70 * d, stamina |-> stam - FLIGHT_COST * d, lift |-> TRUE]
    ELSE [vy |-> vy, stamina |-> stam, lift |-> FALSE]

\* a lift that holds the height and costs nothing
JumpStepHover(vy, stam, jump, onGround, d) ==
    IF ~jump THEN [vy |-> vy, stamina |-> stam, lift |-> FALSE]
    ELSE IF onGround THEN [vy |-> 18 * Scale, stamina |-> stam, lift |-> FALSE]
    ELSE IF stam > 5 * Scale THEN [vy |-> 0, stamina |-> stam, lift |-> TRUE]
    ELSE [vy |-> vy, stamina |-> stam, lift |-> FALSE]

\* the lift rule without the reserve of 5: lift whenever any stamina is left
JumpStepNoReserve(vy, stam, jump, onGround, d) ==
    IF ~jump THEN [vy |-> vy, stamina |-> stam, lift |-> FALSE]
    ELSE IF onGround THEN [vy |-> 18 * Scale, stamina |-> stam, lift |-> FALSE]
    ELSE IF stam > 0
        THEN [vy |-> vy + 70 * d, stamina |-> stam - FLIGHT_COST * d, lift |-> TRUE]
    ELSE [vy |-> vy, stamina |-> stam, lift |-> FALSE]

\* the jump / lift rule: vertical velocity and stamina after it
JumpStep(vy, stam, jump, onGround, d) ==
    IF ~jump THEN [vy |-> vy, stamina |-> stam, lift |-> FALSE]
    ELSE IF onGround THEN [vy |-> 18 * Scale, stamina |-> stam, lift |-> FALSE]
    ELSE IF stam > 5 * Scale
        THEN [vy |-> vy + 70 * d, stamina |-> stam - FLIGHT_COST * d, lift |-> TRUE]
    ELSE [vy |-> vy, stamina |-> stam, lift |-> FALSE]

\* the ground resolution testing the feet against the ground, not the eyes
GroundStepFeet(y, vy, groundHeight) ==
    LET grounded == y < groundHeight
        y1 == IF grounded THEN groundHeight + EyeHeight ELSE y
    IN  [y |-> IF y1 < -(50 * Scale) THEN 100 * Scale ELSE y1,
         vy |-> IF grounded THEN Max(0, vy) ELSE vy,
         onGround |-> grounded]

\* the ground resolution keeping a downward velocity on landing
GroundStepNoClamp(y, vy, groundHeight) ==
    LET grounded == y < groundHeight + EyeHeight
        y1 == IF grounded THEN groundHeight + EyeHeight ELSE y
    IN  [y |-> IF y1 < -(50 * Scale) THEN 100 * Scale ELSE y1,
         vy |-> vy,
         onGround |-> grounded]

\* the ground resolution without the respawn floor
GroundStepNoFloor(y, vy, groundHeight) ==
    LET grounded == y < groundHeight + EyeHeight
    IN  [y |-> IF grounded THEN groundHeight + EyeHeight ELSE y,
         vy |-> IF grounded THEN Max(0, vy) ELSE vy,
         onGround |-> grounded]

\* the ground resolution and the respawn floor: height, vertical velocity
\* and grounded flag committed for tentative height y
GroundStep(y, vy, groundHeight) ==
    LET grounded == y < groundHeight + EyeHeight
        y1 == IF grounded THEN groundHeight + EyeHeight ELSE y
    IN  [y |-> IF y1 < -(50 * Scale) THEN 100 * Scale ELSE y1,
         vy |-> IF grounded THEN Max(0, vy) ELSE vy,
         onGround |-> grounded]

\* a gravity of 20 instead of 50
GravityGentle(vy, d) == vy - 20 * d

\* playerVelocity.y -= 50.0 * delta
Gravity(vy, d) == vy - 50 * d

\* one call of updatePhysics with delta d (ms): the new player state and the
\* locals of the call
PhysicsStep(pos, vel, onGround, stam, keys, d, table, colls) ==
    LET isSprinting == KEYS.SPRINT \in keys /\ stam > 0
        moveSpeed == IF isSprinting THEN 18 ELSE 10
        stam1 == StaminaStep(stam, isSprinting, d)
        moveDir == MoveDir(keys)
        moving == moveDir.x # 0 \/ moveDir.z # 0
        vx == vel.x - Div(vel.x * d, 100)
                 + (IF moving THEN Div(moveDir.x * moveSpeed * 20 * d, Scale) ELSE 0)
        vz == vel.z - Div(vel.z * d, 100)
                 + (IF moving THEN Div(moveDir.z * moveSpeed * 20 * d, Scale) ELSE 0)
        j == JumpStep(Gravity(vel.y, d), stam1, KEYS.JUMP \in keys, onGround, d)
        tent == Vec(pos.x + Div(vx * d, Scale), pos.y + Div(j.vy * d, Scale),
                    pos.z + Div(vz * d, Scale))
        near == NearObstacles(pos, table)
        pushed == CollideAll(tent, near)
        ray == Raycast(colls, pushed.x, pushed.z)
        g == GroundStep(pushed.y, j.vy, ray.groundHeight)
    IN  [position |-> Vec(pushed.x, g.y, pushed.z),
         velocity |-> Vec(vx, g.vy, vz),
         onGround |-> g.onGround,
         stamina |-> j.stamina,
         locals |-> [from |-> pos, tentative |-> tent, pushed |-> pushed, near |-> near,
                     hit |-> ray.hit, groundHeight |-> ray.groundHeight,
                     lift |-> j.lift, wasOnGround |-> onGround,
                     staminaBefore |-> stam, jump |-> KEYS.JUMP \in keys,
                     sprint |-> KEYS.SPRINT \in keys, delta |-> d, vy |-> j.vy]]

(* ---------------- updateDayNight, getTimeStr, getClosestPOI ---------------- *)
\* timeOfDay after updateDayNight(delta): += delta * 0.005, reset when above 1
DayNightStep(t, d) ==
    LET t1 == t + 5 * d
    IN  IF t1 > DayLen THEN 0 ELSE t1

\* Math.floor(timeOfDay * 24)
HourOf(t) == (t * 24) \div DayLen

\* the labels with hour 20 still counted as dusk
TimeStrOfHourLateDusk(hour) ==
    IF hour < 5 THEN "Deep Night"
    ELSE IF hour < 9 THEN "Dawn"
    ELSE IF hour < 17 THEN "Day"
    ELSE IF hour <= 20 THEN "Dusk"
    ELSE "Night"

TimeStrOfHour(hour) ==
    IF hour < 5 THEN "Deep Night"
    ELSE IF hour < 9 THEN "Dawn"
    ELSE IF hour < 17 THEN "Day"
    ELSE IF hour < 20 THEN "Dusk"
    ELSE "Night"

getTimeStr == TimeStrOfHour(HourOf(timeOfDay))

\* getClosestPOI; draw is the Math.random() > 0.5 of getBiome
getClosestPOI(draw) ==
    IF poiNearby # Null
    THEN [position |-> poiNearby,
          biome |-> getBiome(poiNearby.x, poiNearby.z, poiNearby.y, draw)]
    ELSE Null

(* ------------------------------------------------------------------ *)
(* App state                                                            *)
(* ------------------------------------------------------------------ *)
VARIABLES
    stats,            \* useState stats: the last snapshot the engine emitted
    canScan,          \* useState canScan: the last availability the engine reported
    isScanning,       \* useState isScanning
    scanProgress,     \* useState scanProgress
    lore,             \* useState lore, newest first
    celebrationEntry, \* useState celebrationEntry, or Null
    closure,          \* canScan and isScanning as captured by the registered keydown
                      \* handler and its handleScan (the last render whose effect ran)
    scans,            \* the handleScan calls that are suspended at an await
    hideTimers,       \* pending timeouts that will clear celebrationEntry
    ticks,            \* progress interval callbacks run so far
    ai,               \* whether geminiService holds a client (an API key was set)
    loreCalls         \* generateLore calls made so far

appVars == <<stats, canScan, isScanning, scanProgress, lore, celebrationEntry, closure,
             scans, hideTimers, ticks, ai, loreCalls>>

\* a call of one function of the program on its own: its name, its arguments
\* and, once it has returned, its result
VARIABLES probe

vars == <<world, probe, engineVars, appVars>>

(* ------------------------------------------------------------------ *)
(* Bounds and inputs                                                    *)
(* ------------------------------------------------------------------ *)
MaxFrames == 1
MaxKeyEvents == 1
MaxLoreCalls == 2
MaxTicks == 2

\* ms between two frames; animate clamps delta to 100
Elapsed == {16, 100, 250}
\* the key codes the engine's physics reads
EngineKeys == {KEYS.FORWARD, KEYS.BACKWARD, KEYS.LEFT, KEYS.RIGHT, KEYS.JUMP, KEYS.SPRINT}

(* ------------------------------------------------------------------ *)
(* The frame: GameEngine.animate                                        *)
(* ------------------------------------------------------------------ *)
\* animate with the streaming update called before the physics step
AnimateOrderChunksFirst == <<"chunks", "physics", "daynight", "stats">>

\* the order in which animate calls the updates
AnimateOrder == <<"physics", "chunks", "daynight", "stats">>

\* the step after the one named
StepAfter(step) ==
    LET i == CHOOSE j \in 1..Len(AnimateOrder) : AnimateOrder[j] = step
    IN  IF i = Len(AnimateOrder) THEN "idle" ELSE AnimateOrder[i + 1]

\* animate is entered: e is performance.now() minus the time of the last
\* frame, which the call stores for the next one
Animate ==
    /\ pc = "idle"
    /\ frames < MaxFrames
    /\ \E e \in Elapsed : delta' = Min(e, 100)
    /\ pc' = AnimateOrder[1]
    /\ log' = <<>>
    /\ frames' = frames + 1
    /\ UNCHANGED <<world, probe, chunks, colliders, position, playerVelocity, playerOnGround,
                   keysPressed, stamina, timeOfDay, poiNearby, phys, keyEvents, appVars>>

UpdatePhysics ==
    /\ pc = "physics"
    /\ LET r == PhysicsStep(position, playerVelocity, playerOnGround, stamina,
                            keysPressed, delta, chunks, colliders)
       IN  /\ position' = r.position
           /\ playerVelocity' = r.velocity
           /\ playerOnGround' = r.onGround
           /\ stamina' = r.stamina
           /\ phys' = r.locals
    /\ pc' = StepAfter("physics")
    /\ log' = Append(log, "physics")
    /\ UNCHANGED <<world, probe, chunks, colliders, keysPressed, timeOfDay, poiNearby,
                   delta, frames, keyEvents, appVars>>

\* updateChunks, with the poiCallback that sets the App's canScan
UpdateChunks ==
    /\ pc = "chunks"
    /\ \E draws \in [1..Len(world.samples) -> BOOLEAN] :
        LET after == ChunksAfter(chunks, position, draws)
            found == ScanPOI(WindowSeq(ChunkOf(position.x), ChunkOf(position.z),
                                       RENDER_DISTANCE), after, position, poiNearby)
        IN  /\ chunks' = after
            /\ colliders' = CollidersAfter(chunks, colliders, position, after)
            /\ poiNearby' = found.poiNearby
            /\ canScan' = found.hasPOI
    /\ pc' = StepAfter("chunks")
    /\ log' = Append(log, "chunks")
    /\ UNCHANGED <<world, probe, position, playerVelocity, playerOnGround, keysPressed, stamina,
                   timeOfDay, delta, phys, frames, keyEvents, stats, isScanning,
                   scanProgress, lore, celebrationEntry, closure, scans, hideTimers, ticks, ai, loreCalls>>

UpdateDayNight ==
    /\ pc = "daynight"
    /\ timeOfDay' = DayNightStep(timeOfDay, delta)
    /\ pc' = StepAfter("daynight")
    /\ log' = Append(log, "daynight")
    /\ UNCHANGED <<world, probe, chunks, colliders, position, playerVelocity, playerOnGround,
                   keysPressed, stamina, poiNearby, delta, phys, frames,
                   keyEvents, appVars>>

\* the snapshot handed to statsCallback
Snapshot(draw) ==
    [position |-> position,
     stamina |-> stamina,
     isFlying |-> ~playerOnGround /\ stamina < StaminaMax,
     biome |-> getBiome(position.x, position.z, position.y, draw),
     timeOfDay |-> timeOfDay]

EmitStats ==
    /\ pc = "stats"
    /\ \E draw \in BOOLEAN : stats' = Snapshot(draw)
    /\ pc' = StepAfter("stats")
    /\ log' = Append(log, "stats")
    /\ UNCHANGED <<world, probe, chunks, colliders, position, playerVelocity, playerOnGround,
                   keysPressed, stamina, timeOfDay, poiNearby, delta, phys,
                   frames, keyEvents, canScan, isScanning, scanProgress, lore,
                   celebrationEntry, closure, scans, hideTimers, ticks, ai, loreCalls>>

\* the engine's keydown and keyup listeners
KeyDown ==
    /\ pc = "idle"
    /\ keyEvents < MaxKeyEvents
    /\ \E k \in EngineKeys \ keysPressed : keysPressed' = keysPressed \cup {k}
    /\ keyEvents' = keyEvents + 1
    /\ UNCHANGED <<world, probe, chunks, colliders, position, playerVelocity, playerOnGround,
                   stamina, timeOfDay, poiNearby, pc, delta, phys, log, frames,
                   appVars>>

KeyUp ==
    /\ pc = "idle"
    /\ keyEvents < MaxKeyEvents
    /\ \E k \in keysPressed : keysPressed' = keysPressed \ {k}
    /\ keyEvents' = keyEvents + 1
    /\ UNCHANGED <<world, probe, chunks, colliders, position, playerVelocity, playerOnGround,
                   stamina, timeOfDay, poiNearby, pc, delta, phys, log, frames,
                   appVars>>

(* ------------------------------------------------------------------ *)
(* geminiService.generateLore                                           *)
(* ------------------------------------------------------------------ *)
SignalLost ==
    [title |-> "Signal Lost",
     content |-> "Neural link to archive offline. (Missing API Key)"]
StaticInterference ==
    [title |-> "Static Interference",
     content |-> "The data fragment is corrupted. The monolith remains silent."]

\* a well-formed answer of the model, as text and as the value it parses to
StoryText == "{\"title\":\"Silent Spire\",\"content\":\"It hums beneath the dusk.\"}"
Story == [title |-> "Silent Spire", content |-> "It hums beneath the dusk."]

\* what models.generateContent can do: reject, or resolve with a response
\* whose text is empty, is no JSON, is JSON of another shape, or is a pair
Responses ==
    {[kind |-> "rejects", text |-> ""]}
        \cup {[kind |-> "text", text |-> x] : x \in {"", "<html>", "null", StoryText}}

\* JSON.parse on the texts above: the value, or a SyntaxError
JsonParse(text) ==
    IF text = StoryText THEN [threw |-> FALSE, value |-> Story]
    ELSE IF text = "null" THEN [threw |-> FALSE, value |-> Null]
    ELSE [threw |-> TRUE, value |-> Null]

\* the try block of generateLore: what it returns, or that it threw
LoreBody(response) ==
    IF response.kind = "rejects" THEN [threw |-> TRUE, value |-> Null]
    ELSE IF response.text = "" THEN [threw |-> TRUE, value |-> Null]
    ELSE JsonParse(response.text)

\* generateLore with the catch clause left out
generateLoreUncaught(client, response) ==
    IF ~client THEN [state |-> "fulfilled", value |-> SignalLost]
    ELSE LET body == LoreBody(response)
         IN  IF body.threw THEN [state |-> "rejected", value |-> Null]
             ELSE [state |-> "fulfilled", value |-> body.value]

\* how the promise generateLore returns settles; client: whether ai is set
generateLore(client, response) ==
    IF ~client THEN [state |-> "fulfilled", value |-> SignalLost]
    ELSE LET body == LoreBody(response)
         IN  IF body.threw THEN [state |-> "fulfilled", value |-> StaticInterference]
             ELSE [state |-> "fulfilled", value |-> body.value]

(* ------------------------------------------------------------------ *)
(* App: handleScan and the keydown effect                               *)
(* ------------------------------------------------------------------ *)
\* Event handlers, timers and promise continuations run between two animate
\* calls (pc = "idle").  The set-state calls change the state React holds; the
\* constants canScan and isScanning that handleKeyDown and handleScan
\* read are those of the render whose effect registered the listener, and
\* change only when React renders again and the effect runs (Render).
Remove(s, i) == [j \in 1..(Len(s) - 1) |-> IF j < i THEN s[j] ELSE s[j + 1]]

\* keydown with code KEYS.SCAN: handleKeyDown, and handleScan to its first await
KeyScan ==
    /\ pc = "idle"
    /\ loreCalls < MaxLoreCalls
    /\ closure.canScan /\ ~closure.isScanning
    /\ \E draw \in BOOLEAN :
        LET poiInfo == getClosestPOI(draw)
        IN  IF poiInfo = Null
            THEN UNCHANGED <<isScanning, scanProgress, scans, loreCalls>>
            ELSE /\ isScanning' = TRUE
                 /\ scanProgress' = 0
                 /\ scans' = Append(scans, [at |-> "lore", interval |-> TRUE,
                                            biome |-> poiInfo.biome, timeStr |-> getTimeStr,
                                            client |-> ai, response |-> Null,
                                            data |-> Null])
                 /\ loreCalls' = loreCalls + 1
    /\ UNCHANGED <<world, probe, engineVars, stats, canScan, lore, celebrationEntry, closure,
                   hideTimers, ticks, ai>>

\* React renders the App and runs the keydown effect again
Render ==
    /\ pc = "idle"
    /\ closure # [canScan |-> canScan, isScanning |-> isScanning]
    /\ closure' = [canScan |-> canScan, isScanning |-> isScanning]
    /\ UNCHANGED <<world, probe, engineVars, stats, canScan, isScanning, scanProgress, lore,
                   celebrationEntry, scans, hideTimers, ticks, ai, loreCalls>>

\* a progress interval fires
ProgressTick ==
    /\ pc = "idle"
    /\ ticks < MaxTicks
    /\ \E i \in 1..Len(scans) : scans[i].interval
    /\ scanProgress' = Min(scanProgress + 2, 95)
    /\ ticks' = ticks + 1
    /\ UNCHANGED <<world, probe, engineVars, stats, canScan, isScanning, lore, celebrationEntry,
                   closure, scans, hideTimers, ai, loreCalls>>

\* the promise of generateLore settles and handleScan runs to its next
\* await, or (rejected) through catch and finally
LoreSettle ==
    /\ pc = "idle"
    /\ \E i \in 1..Len(scans) : \E response \in Responses :
        LET result == generateLore(scans[i].client, response)
        IN  /\ scans[i].at = "lore"
            /\ IF result.state = "fulfilled"
               THEN /\ scans' = [scans EXCEPT ![i] = [@ EXCEPT !.at = "delay",
                                     !.interval = FALSE, !.response = response,
                                     !.data = result.value]]
                    /\ scanProgress' = 100
                    /\ UNCHANGED isScanning
               ELSE /\ scans' = [scans EXCEPT ![i] = [@ EXCEPT !.at = "failed",
                                     !.response = response]]
                    /\ isScanning' = FALSE
                    /\ scanProgress' = 0
    /\ UNCHANGED <<world, probe, engineVars, stats, canScan, lore, celebrationEntry, closure,
                   hideTimers, ticks, ai, loreCalls>>

\* the 500 ms delay ends: the entry is added and shown (data.title throws
\* when data is null, and the catch logs it), then finally
ScanReveal ==
    /\ pc = "idle"
    /\ \E i \in 1..Len(scans) :
        /\ scans[i].at = "delay"
        /\ IF scans[i].data = Null
           THEN UNCHANGED <<lore, celebrationEntry, hideTimers>>
           ELSE /\ lore' = <<scans[i].data>> \o lore
                /\ celebrationEntry' = scans[i].data
                /\ hideTimers' = hideTimers + 1
        /\ scans' = Remove(scans, i)
    /\ isScanning' = FALSE
    /\ scanProgress' = 0
    /\ UNCHANGED <<world, probe, engineVars, stats, canScan, closure, ticks, ai, loreCalls>>

\* the 5 s timeout of a celebration fires
CelebrationHide ==
    /\ pc = "idle"
    /\ hideTimers > 0
    /\ hideTimers' = hideTimers - 1
    /\ celebrationEntry' = Null
    /\ UNCHANGED <<world, probe, engineVars, stats, canScan, isScanning, scanProgress, lore,
                   closure, scans, ticks, ai, loreCalls>>

(* ------------------------------------------------------------------ *)
(* Worlds and initial states                                            *)
(* ------------------------------------------------------------------ *)
NoSamples == <<>>
\* The scatter grid puts its points at the same jittered local places in every
\* chunk: the point of grid cell (6, -2) at local (5.042, -1.810) and that of
\* cell (10, 2) at local (8.176, 0.846).  rVal is drawn per world place.
\* Chunk (-1, -1), whose monolith stands at (-100, -100): a tree 5.357 from
\* the monolith, and a pebble
GroveSamples ==
    << [cx |-> -1, cz |-> -1, lx |-> 5042, lz |-> -1810, rVal |-> Scale \div 2],
       [cx |-> -1, cz |-> -1, lx |-> 8176, lz |-> 846, rVal |-> Scale \div 10] >>
\* a point of chunk (5, -4) that carries an oak unless getBiome draws Snow
RidgeSamples ==
    << [cx |-> 5, cz |-> -4, lx |-> 8176, lz |-> 846, rVal |-> (98 * Scale) \div 100] >>

Noise(cont, ridge, rough, temp, samples) ==
    [cont |-> cont, ridge |-> ridge, rough |-> rough, temp |-> temp, samples |-> samples]

\* height 9, Plains
PlainWorld == Noise(0, 0, 0, 0, NoSamples)
\* height 9, Forest, with a tree and a pebble next to the monolith
ForestWorld == Noise(0, 0, 0, (6 * Scale) \div 10, GroveSamples)
\* height 33: the band where getBiome draws Snow
RidgeWorld == Noise((4 * Scale) \div 10, 0, 0, 0, RidgeSamples)
\* height -7, Ocean
OceanWorld == Noise(-(Scale \div 2), 0, 0, 0, NoSamples)
\* height 2.6 after the coastline blend, Desert
BeachWorld == Noise(-(Scale \div 10), 0, 0, -(Scale \div 2), NoSamples)
\* height 3.9, Plains: low land just above the height a monolith needs
ShoreWorld == Noise(Scale \div 20, Scale, (6 * Scale) \div 10, 0, NoSamples)

Worlds == {PlainWorld, ForestWorld, RidgeWorld, OceanWorld, BeachWorld}
\* near the origin every noise sample is near 0
OriginWorlds == {PlainWorld}

NoLocals ==
    [from |-> Vec(0, 0, 0), tentative |-> Vec(0, 0, 0), pushed |-> Vec(0, 0, 0),
     near |-> <<>>, hit |-> FALSE,
     groundHeight |-> NoGround, lift |-> FALSE, wasOnGround |-> FALSE, staminaBefore |-> 0,
     jump |-> FALSE, sprint |-> FALSE, delta |-> 0, vy |-> 0]

NoChunks == [k \in {} |-> Null]

\* the App as mounted
InitApp ==
    /\ isScanning = FALSE
    /\ scanProgress = 0
    /\ lore = <<>>
    /\ celebrationEntry = Null
    /\ scans = <<>>
    /\ hideTimers = 0
    /\ ticks = 0
    /\ loreCalls = 0

\* The engine as constructed: the constructor ends by calling animate(),
\* whose delta is the time the constructor took since it read the clock
EngineConstructed(elapsed) ==
    /\ chunks = NoChunks
    /\ colliders = {}
    /\ position = Vec(0, 80 * Scale, 0)
    /\ playerVelocity = Vec(0, 0, 0)
    /\ playerOnGround = FALSE
    /\ keysPressed = {}
    /\ stamina = StaminaMax
    /\ timeOfDay = DayLen \div 5
    /\ poiNearby = Null
    /\ pc = AnimateOrder[1]
    /\ delta = elapsed
    /\ phys = NoLocals
    /\ log = <<>>
    /\ frames = 0
    /\ keyEvents = 0
    /\ stats = [position |-> Vec(0, 0, 0), stamina |-> StaminaMax, isFlying |-> FALSE,
                biome |-> "Plains", timeOfDay |-> DayLen \div 4]
    /\ canScan = FALSE
    /\ closure = [canScan |-> FALSE, isScanning |-> FALSE]

InitConstructed ==
    /\ world \in OriginWorlds
    /\ EngineConstructed(0)

\* A state between two frames later in a run: the player stands (air = 0) or
\* hangs at (x, z), the chunk table, colliders and point of interest are
\* those updateChunks leaves for that position, and the App has rendered.
MidRun(w, x, z, air, keys, stam, time) ==
    /\ world = w
    /\ position = Vec(x, getHeight(x, z) + EyeHeight + air, z)
    /\ playerVelocity = Vec(0, 0, 0)
    /\ playerOnGround = (air = 0)
    /\ keysPressed = keys
    /\ stamina = stam
    /\ timeOfDay = time
    /\ chunks = ChunksAfter(NoChunks, position, [i \in 1..Len(w.samples) |-> FALSE])
    /\ colliders = CollidersAfter(NoChunks, {}, position, chunks)
    /\ poiNearby = ScanPOI(WindowSeq(ChunkOf(x), ChunkOf(z), RENDER_DISTANCE), chunks,
                           position, Null).poiNearby
    /\ pc = "idle"
    /\ delta = 0
    /\ phys = NoLocals
    /\ log = AnimateOrder
    /\ frames = 0
    /\ keyEvents = 0
    /\ stats = Snapshot(FALSE)
    /\ canScan = (poiNearby # Null)
    /\ closure = [canScan |-> canScan, isScanning |-> FALSE]

\* Places.  EastOfTree is 2 east of the tree of GroveSamples.
\* The monolith of chunk (-1, -1) stands at (-100, -100), on the
\* line x = -100 between the player chunks -2 and -1; crossing x = 0 brings
\* the chunk column 5 (with the monolith chunk (5, -4)) into the window and
\* drops column -6 (with the monolith chunk (-6, -2)).
EastOfTree == [x |-> 5042 + 2 * Scale - 100 * Scale, z |-> -1810 - 100 * Scale]
WestOfLine == [x |-> -((1005 * Scale) \div 10), z |-> -(106 * Scale)]
WestOfOrigin == [x |-> -(Scale \div 2), z |-> -(106 * Scale)]
OutOfRange == [x |-> -(75 * Scale), z |-> -(100 * Scale)]
InRange == [x |-> -(76 * Scale), z |-> -(100 * Scale)]

Start(w, at, air, keys, stam, time) ==
    [w |-> w, at |-> at, air |-> air, keys |-> keys, stam |-> stam, time |-> time]

\* timeOfDay as constructed (0.2), and late in the day
Morning == DayLen \div 5
Late == DayLen - Scale \div 2
Later == DayLen - Scale \div 4

Starts ==
    { Start(ForestWorld, EastOfTree, 0, {KEYS.LEFT}, StaminaMax, Morning),
      Start(ForestWorld, EastOfTree, 0, {KEYS.LEFT, KEYS.SPRINT}, StaminaMax, Morning),
      Start(PlainWorld, EastOfTree, 0, {KEYS.LEFT, KEYS.SPRINT}, Scale \div 2, Morning),
      Start(PlainWorld, WestOfLine, 0, {KEYS.RIGHT}, StaminaMax, Late),
      Start(RidgeWorld, WestOfOrigin, 0, {KEYS.RIGHT, KEYS.FORWARD}, StaminaMax, Morning),
      Start(OceanWorld, WestOfLine, 0, {KEYS.RIGHT}, StaminaMax, Morning),
      Start(BeachWorld, WestOfOrigin, 0, {KEYS.LEFT}, StaminaMax, Morning),
      Start(PlainWorld, OutOfRange, 0, {KEYS.LEFT}, StaminaMax, Later),
      Start(PlainWorld, InRange, 0, {KEYS.RIGHT}, StaminaMax, Morning),
      Start(PlainWorld, WestOfLine, 10 * Scale, {KEYS.JUMP}, (51 * Scale) \div 10, Morning),
      Start(PlainWorld, WestOfLine, 10 * Scale, {KEYS.JUMP, KEYS.SPRINT}, (61 * Scale) \div 10,
            Morning),
      Start(PlainWorld, WestOfLine, 10 * Scale, {KEYS.JUMP}, Scale \div 2, Morning),
      Start(OceanWorld, WestOfOrigin, Scale \div 20, {}, StaminaMax \div 2, Morning) }

InitMidRun ==
    \E s \in Starts : MidRun(s.w, s.at.x, s.at.z, s.air, s.keys, s.stam, s.time)

Init ==
    /\ InitConstructed \/ InitMidRun
    /\ InitApp
    /\ ai = TRUE
    /\ probe = Null

Next ==
    \/ Animate
    \/ UpdatePhysics
    \/ UpdateChunks
    \/ UpdateDayNight
    \/ EmitStats
    \/ KeyDown
    \/ KeyUp

Spec == Init /\ [][Next]_vars

(* ------------------------------------------------------------------ *)
(* The scan: the App's handlers between two frames of the engine        *)
(* ------------------------------------------------------------------ *)
\* The player stands in range of the monolith at (-100, -100), at the times
\* of day around each threshold of getTimeStr, with and without an API key;
\* on the ridge the monolith's biome is drawn, on the shore the monolith
\* stands on land of height 3.9.
BeforeHour(h) == (h * DayLen) \div 24
AtHour(h) == BeforeHour(h) + 1
ScanTimes ==
    {0, DayLen} \cup UNION {{BeforeHour(h), AtHour(h)} : h \in {5, 9, 17, 20}}

ScanStarts ==
    {[s |-> Start(w, InRange, 0, {}, StaminaMax, Morning), client |-> c] :
        w \in {PlainWorld, RidgeWorld, ShoreWorld}, c \in BOOLEAN}
    \cup {[s |-> Start(PlainWorld, InRange, 0, {}, StaminaMax, time), client |-> TRUE] :
            time \in ScanTimes}

InitScan ==
    /\ \E c \in ScanStarts :
        /\ MidRun(c.s.w, c.s.at.x, c.s.at.z, c.s.air, c.s.keys, c.s.stam, c.s.time)
        /\ ai = c.client
    /\ InitApp
    /\ probe = Null

NextScan ==
    \/ KeyScan
    \/ Render
    \/ ProgressTick
    \/ LoreSettle
    \/ ScanReveal
    \/ CelebrationHide

SpecScan == InitScan /\ [][NextScan]_vars

(* ------------------------------------------------------------------ *)
(* Single calls: one function of the program applied to given inputs    *)
(* ------------------------------------------------------------------ *)
\* The noise values getHeight is called on: deep ocean, the shore line
\* (base 0 and just above), low land on both sides of the blend interval and
\* high land; ridges absent to full; roughness from -0.5 to 0.9.  The triple
\* (-0.01, 0.8, 0.9) gives the pre-blend height WATER_LEVEL + 2 exactly.
HeightConts == {-400, -150, -140, -10, 0, 50, 100, 400}
HeightRidges == {0, 500, 800, 1000}
HeightRoughs == {-500, 0, 500, 900}
HeightWorlds ==
    {[cont |-> c, ridge |-> r, rough |-> g, temp |-> 0, samples |-> NoSamples] :
        c \in HeightConts, r \in HeightRidges, g \in HeightRoughs}
\* the points getHeight is called at: the origin and one point away from it
HeightPoints == {[x |-> 0, z |-> 0], [x |-> 12 * Scale, z |-> -(7 * Scale)]}

\* The scatter points the loop body is run on: worlds of height -7 (Ocean),
\* 9, 33 (the band where getBiome draws Snow) and 51 (Mountain), of each
\* temperature band, and values of rVal on both sides of 0.03 and 0.15 and
\* of each tree threshold.
ScatterConts == {-500, 0, 400, 700}
ScatterTemps == {-500, 0, 300, 600}
ScatterWorlds == {Noise(c, 0, 0, tmp, NoSamples) : c \in ScatterConts, tmp \in ScatterTemps}
ScatterRVals == {0, 20, 29, 30, 100, 149, 150, 500, 700, 980}
ScatterProbes ==
    {[fn |-> "scatter",
      s |-> [cx |-> 5, cz |-> -4, lx |-> 8176, lz |-> 846, rVal |-> v],
      draw |-> b, out |-> Null] : v \in ScatterRVals, b \in BOOLEAN}

\* The player states updatePhysics is called on, over land (height 9) and
\* ocean floor (height -7): with the terrain of chunk (0, 0) as the only
\* collider or with none (the ray misses); heights from above the ground to
\* below the respawn floor (-49.988 gives the tentative height -50 exactly);
\* falling, resting and rising; stamina on both sides of the lift reserve.
PhysicsWorlds == {PlainWorld, OceanWorld}
PhysicsColliders == {{}, {[key |-> <<0, 0>>, kind |-> "terrain", stones |-> <<>>]}}
PhysicsHeights == {-(60 * Scale), -49988, -(49 * Scale), 5 * Scale, 10600, 12 * Scale}
PhysicsSpeeds == {-(30 * Scale), 0, 5 * Scale}
PhysicsKeys == {{}, {KEYS.JUMP}, {KEYS.JUMP, KEYS.SPRINT}, {KEYS.RIGHT}, {KEYS.RIGHT, KEYS.SPRINT}}
PhysicsStaminas == {StaminaMax, StaminaMax - 100, 5 * Scale + 100, 5 * Scale, 2 * Scale, 100, 0}
PhysicsDeltas == {16, 100}
PhysicsProbes ==
    {[fn |-> "updatePhysics", pos |-> Vec(3 * Scale, y, -(4 * Scale)), vel |-> Vec(0, vy, 0),
      onGround |-> g, stam |-> s, keys |-> k, d |-> d, colls |-> c, table |-> NoChunks,
      out |-> Null] :
        y \in PhysicsHeights, vy \in PhysicsSpeeds, g \in BOOLEAN, s \in PhysicsStaminas,
        k \in PhysicsKeys, d \in PhysicsDeltas, c \in PhysicsColliders}

\* The player states updatePhysics is called on next to one obstacle, a
\* cactus or a monolith at (10, -4) in chunk (0, 0): standing on the ground
\* from 3 west of its centre to 0.9 east of it, the centre included, on its
\* line and beside it, at rest or walking or sprinting into it.
ObstacleTable(r) ==
    [k \in {<<0, 0>>} |->
        [obstacles |-> <<[x |-> 10 * Scale, z |-> -(4 * Scale), r |-> r]>>,
         poi |-> Null, stones |-> <<>>]]
CollisionProbes ==
    {[fn |-> "updatePhysics",
      pos |-> Vec(10 * Scale + ox, 9 * Scale + EyeHeight, oz - 4 * Scale),
      vel |-> Vec(0, 0, 0), onGround |-> TRUE, stam |-> StaminaMax, keys |-> k, d |-> d,
      colls |-> {[key |-> <<0, 0>>, kind |-> "terrain", stones |-> <<>>]},
      table |-> ObstacleTable(r), out |-> Null] :
        ox \in {-(3 * Scale), -1500, -1200, -51, 0, 900}, oz \in {0, 500, -1300},
        k \in {{}, {KEYS.RIGHT}, {KEYS.RIGHT, KEYS.SPRINT}, {KEYS.BACKWARD}},
        d \in PhysicsDeltas, r \in {Scale \div 2, 4 * Scale}}

\* The inputs getBiome is called on: temperatures on both sides of -0.4, 0.2
\* and 0.5 and on them, heights on both sides of WATER_LEVEL + 0.2, 30 and 45
\* and on them, at a point away from the origin, with either draw.
BiomeWorlds ==
    {Noise(0, 0, 0, tmp, NoSamples) : tmp \in {-(Scale \div 2), -400, -399, 0, 200, 201, 500, 501}}
BiomeProbes ==
    {[fn |-> "getBiome", x |-> 12 * Scale, z |-> -(7 * Scale), height |-> h, draw |-> b,
      out |-> Null] :
        h \in {-(5 * Scale), 1699, 1700, 9 * Scale, 30 * Scale, 30001, 45 * Scale, 45001},
        b \in BOOLEAN}

\* The player at the edge of chunk column 0 (floor), sprinting out of it at
\* the speed a held key settles at (36) for the longest tick: into a tree of
\* the next column, with a boulder of the largest radius (1.6) at the place
\* nearest to the player that a chunk two columns away can hold,
\* chunkWorldX - 52 to the east and just below chunkWorldX + 50 to the west.
EdgeTable(dir) ==
    [k \in {<<(dir + 1) \div 2, 0>>, <<2 * dir, 0>>} |->
        [obstacles |->
            IF k[1] = 2 * dir
            THEN <<[x |-> IF dir = 1 THEN 2 * ChunkLen - 52 * Scale
                                     ELSE -(2 * ChunkLen) + 50 * Scale - 1,
                    z |-> -(4 * Scale), r |-> 1600]>>
            ELSE <<[x |-> IF dir = 1 THEN ChunkLen + 4 * Scale ELSE -(4 * Scale),
                    z |-> -(4 * Scale), r |-> 800]>>,
         poi |-> Null, stones |-> <<>>]]
EdgeProbes ==
    {[fn |-> "updatePhysics",
      pos |-> Vec(IF dir = 1 THEN ChunkLen - 1 ELSE 0, 9 * Scale + EyeHeight, -(4 * Scale)),
      vel |-> Vec(dir * 36 * Scale, 0, 0), onGround |-> TRUE, stam |-> StaminaMax,
      keys |-> {IF dir = 1 THEN KEYS.RIGHT ELSE KEYS.LEFT, KEYS.SPRINT}, d |-> 100,
      colls |-> {[key |-> <<(dir + 1) \div 2, 0>>, kind |-> "terrain", stones |-> <<>>]},
      table |-> EdgeTable(dir), out |-> Null] : dir \in {-1, 1}}

InitUnit ==
    /\ \/ /\ world \in BiomeWorlds
          /\ probe \in BiomeProbes
       \/ /\ world \in HeightWorlds
          /\ probe \in {[fn |-> "getHeight", at |-> p, out |-> Null] : p \in HeightPoints}
       \/ /\ world \in ScatterWorlds
          /\ probe \in ScatterProbes
       \/ /\ world \in PhysicsWorlds
          /\ probe \in PhysicsProbes
       \/ /\ world = PlainWorld
          /\ probe \in CollisionProbes \cup EdgeProbes
    /\ EngineConstructed(0)
    /\ InitApp
    /\ ai = TRUE

\* getHeight(x, z) returns; pre is the value of h before the blend
CallGetHeight ==
    /\ probe.fn = "getHeight" /\ probe.out = Null
    /\ probe' = [probe EXCEPT !.out =
                    [base |-> BaseOf(continentNoise(probe.at.x, probe.at.z)),
                     pre |-> PreBlend(continentNoise(probe.at.x, probe.at.z),
                                      ridgeNoise(probe.at.x, probe.at.z),
                                      roughNoise(probe.at.x, probe.at.z)),
                     h |-> getHeight(probe.at.x, probe.at.z)]]
    /\ UNCHANGED <<world, engineVars, appVars>>

\* one pass of the body of generateChunk's scatter loop, at sample point s
\* with getBiome drawing probe.draw
CallScatter ==
    /\ probe.fn = "scatter" /\ probe.out = Null
    /\ LET o == ScatterAt(probe.s, probe.draw)
       IN  probe' = [probe EXCEPT !.out =
                       [kind |-> o.kind, r |-> o.r, y |-> o.y,
                        biome |-> getBiome(o.x, o.z, o.y, probe.draw)]]
    /\ UNCHANGED <<world, engineVars, appVars>>

\* getBiome(x, z, height) returns, with Math.random() > 0.5 drawing probe.draw
CallGetBiome ==
    /\ probe.fn = "getBiome" /\ probe.out = Null
    /\ probe' = [probe EXCEPT !.out =
                    [biome |-> getBiome(probe.x, probe.z, probe.height, probe.draw)]]
    /\ UNCHANGED <<world, engineVars, appVars>>

\* updatePhysics(delta) returns
CallUpdatePhysics ==
    /\ probe.fn = "updatePhysics" /\ probe.out = Null
    /\ probe' = [probe EXCEPT !.out =
                    PhysicsStep(probe.pos, probe.vel, probe.onGround, probe.stam,
                                probe.keys, probe.d, probe.table, probe.colls)]
    /\ UNCHANGED <<world, engineVars, appVars>>

NextUnit ==
    \/ CallGetBiome
    \/ CallGetHeight
    \/ CallScatter
    \/ CallUpdatePhysics

SpecUnit == InitUnit /\ [][NextUnit]_vars

(* ------------------------------------------------------------------ *)
(* The fall from the spawn point: frames at a constant rate, no input   *)
(* ------------------------------------------------------------------ *)
\* the frames of a run, the first one included
MaxFallTicks == 108
\* the frame times, in ms, on either side of 1/60 s
FallDeltas == {16, 17}

\* the engine as constructed, with the first frame already lasting the
\* constant frame time
InitFall ==
    /\ world = PlainWorld
    /\ probe \in {[fn |-> "fall", dt |-> d] : d \in FallDeltas}
    /\ EngineConstructed(probe.dt)
    /\ InitApp
    /\ ai = TRUE

\* animate is entered one frame time after the last frame
AnimateSteady ==
    /\ pc = "idle"
    /\ frames + 1 < MaxFallTicks
    /\ delta' = Min(probe.dt, 100)
    /\ pc' = AnimateOrder[1]
    /\ log' = <<>>
    /\ frames' = frames + 1
    /\ UNCHANGED <<world, probe, chunks, colliders, position, playerVelocity, playerOnGround,
                   keysPressed, stamina, timeOfDay, poiNearby, phys, keyEvents, appVars>>

NextFall ==
    \/ AnimateSteady
    \/ UpdatePhysics
    \/ UpdateChunks
    \/ UpdateDayNight
    \/ EmitStats

SpecFall == InitFall /\ [][NextFall]_vars

(* ------------------------------------------------------------------ *)
(* Held jump: the physics steps of successive frames                    *)
(* ------------------------------------------------------------------ *)
\* the frame times, in ms: about 1/60 s, and the clamp
FlightDeltas == {16, 17, 100}

\* The player stands on the ground with full stamina and the jump key, and
\* no other, held from now on; every frame lasts probe.dt.
InitFlight ==
    /\ probe \in {[fn |-> "flight", dt |-> d] : d \in FlightDeltas}
    /\ MidRun(PlainWorld, WestOfLine.x, WestOfLine.z, 0, {KEYS.JUMP}, StaminaMax, Morning)
    /\ InitApp
    /\ ai = TRUE

\* frames are counted up to this number
MaxFlightFrames == 2

\* animate is entered one frame time after the last frame
AnimateHeld ==
    /\ pc = "idle"
    /\ delta' = Min(probe.dt, 100)
    /\ pc' = "physics"
    /\ frames' = Min(frames + 1, MaxFlightFrames)
    /\ UNCHANGED <<world, probe, chunks, colliders, position, playerVelocity, playerOnGround,
                   keysPressed, stamina, timeOfDay, poiNearby, phys, log, keyEvents, appVars>>

\* updatePhysics(delta) of the frame.  The player stays above one point, so
\* the streaming update that follows leaves the chunk table and the colliders
\* as they are; the day clock and the snapshot, which updatePhysics does not
\* read, are not followed here.
UpdatePhysicsHeld ==
    /\ pc = "physics"
    /\ LET r == PhysicsStep(position, playerVelocity, playerOnGround, stamina,
                            keysPressed, delta, chunks, colliders)
       IN  /\ position' = r.position
           /\ playerVelocity' = r.velocity
           /\ playerOnGround' = r.onGround
           /\ stamina' = r.stamina
           /\ phys' = r.locals
    /\ pc' = "idle"
    /\ UNCHANGED <<world, probe, chunks, colliders, keysPressed, timeOfDay, poiNearby,
                   delta, log, frames, keyEvents, appVars>>

NextFlight ==
    \/ AnimateHeld
    \/ UpdatePhysicsHeld

\* a frame is entered or its physics step returns
FrameAdvances ==
    \/ pc = "idle" /\ pc' = "physics"
    \/ pc = "physics" /\ pc' = "idle"

\* animate requests the next animation frame at its start, every frame, and
\* runs to its end: the frames never stop
SpecFlight == InitFlight /\ [][NextFlight]_vars /\ WF_pc(FrameAdvances)

(* ------------------------------------------------------------------ *)
(* Streaming window, stamina, obstacles, ground                         *)
(* ------------------------------------------------------------------ *)
\* updateChunks has run in this frame and the player has not moved since
Streamed == pc \in {"daynight", "stats", "idle"}

\* C1: after updateChunks the loaded chunk keys are exactly the square window
\* of RENDER_DISTANCE around the player's chunk: none outside it remains,
\* none inside it is missing, and at most (2 * RENDER_DISTANCE + 1)^2 are loaded.
LoadedIsWindow ==
    Streamed =>
        LET px == ChunkOf(position.x)
            pz == ChunkOf(position.z)
        IN  /\ \A k \in DOMAIN chunks :
                  Abs(k[1] - px) <= RENDER_DISTANCE /\ Abs(k[2] - pz) <= RENDER_DISTANCE
            /\ \A cx \in (px - RENDER_DISTANCE)..(px + RENDER_DISTANCE) :
                  \A cz \in (pz - RENDER_DISTANCE)..(pz + RENDER_DISTANCE) :
                      <<cx, cz>> \in DOMAIN chunks
            /\ Cardinality(DOMAIN chunks)
                  <= (2 * RENDER_DISTANCE + 1) * (2 * RENDER_DISTANCE + 1)

\* updateChunks has run after the physics step took the player, who had a
\* full window loaded, into another chunk
CrossedChunkLine ==
    /\ pc = "daynight"
    /\ phys.hit
    /\ ChunkOf(phys.from.x) # ChunkOf(position.x)
    /\ <<ChunkOf(position.x) + RENDER_DISTANCE, ChunkOf(position.z)>> \in DOMAIN chunks

\* C2: stamina is within [0, STAMINA_MAX] in every state.
StaminaInRange == 0 <= stamina /\ stamina <= StaminaMax

\* a physics step has applied both the sprint drain and the flight drain
BothDrains ==
    /\ pc = "chunks"
    /\ phys.sprint /\ phys.staminaBefore > 0
    /\ phys.lift
    /\ stamina < phys.staminaBefore - FLIGHT_COST * phys.delta

Epsilon == Scale \div 100

\* C3: after the obstacle pass of a physics step the committed position is at
\* least playerRadius + r - epsilon away from the centre of every obstacle of
\* the 3x3 chunk neighbourhood.
ClearOfObstacles ==
    pc = "chunks" =>
        \A i \in 1..Len(phys.near) :
            LET obs == phys.near[i]
                dx == Abs(position.x - obs.x)
                dz == Abs(position.z - obs.z)
                least == playerRadius + obs.r - Epsilon
            IN  dx >= least \/ dz >= least \/ dx * dx + dz * dz >= least * least

\* C4: when the ray cast of a physics step hits ground and the tentative
\* height is below groundHeight + 1.6, the committed height is
\* groundHeight + 1.6 and the player is grounded.
GroundedOnHit ==
    (phys.hit /\ phys.tentative.y < phys.groundHeight + EyeHeight) =>
        (position.y = phys.groundHeight + EyeHeight /\ playerOnGround)

\* a physics step has put a falling player on the ground
Landed ==
    /\ pc = "chunks"
    /\ phys.hit
    /\ ~phys.wasOnGround
    /\ phys.tentative.y < phys.groundHeight + EyeHeight

\* a physics step has run in this run, and phys holds its locals
PhysicsRan == phys # NoLocals

\* C19: after every physics step the player is grounded exactly when the
\* tentative height was below groundHeight + 1.6, with groundHeight -200 when
\* the ray missed; when grounded the vertical velocity is not negative;
\* otherwise the player is airborne and its height and vertical velocity are
\* the integrated ones.
GroundedFlagRule ==
    PhysicsRan =>
        /\ ~phys.hit => phys.groundHeight = -(200 * Scale)
        /\ playerOnGround = (phys.pushed.y < phys.groundHeight + EyeHeight)
        /\ playerOnGround => playerVelocity.y >= 0
        /\ ~playerOnGround => /\ position.y = phys.pushed.y
                              /\ playerVelocity.y = phys.vy

\* a physics step has put a player falling at some speed on the ground, and
\* the vertical velocity is zero after it
LandedAtRest ==
    /\ PhysicsRan
    /\ playerOnGround /\ ~phys.wasOnGround
    /\ phys.vy < 0 /\ playerVelocity.y = 0

\* a physics step whose ray missed has left the player airborne
AirborneOnMiss ==
    /\ PhysicsRan
    /\ ~phys.hit /\ ~playerOnGround
    /\ position.y = phys.pushed.y

(* ------------------------------------------------------------------ *)
(* Scan requests and the lore service                                   *)
(* ------------------------------------------------------------------ *)
\* the handleScan calls whose generateLore promise is pending
InFlight == {i \in 1..Len(scans) : scans[i].at = "lore"}

\* C5: at most one generateLore request is in flight at any time, whatever
\* the order of scan key presses, renders and the settling of the promise.
OneLoreInFlight == Cardinality(InFlight) <= 1

\* the handleScan calls whose generateLore promise has settled
Settled == {i \in 1..Len(scans) : scans[i].response # Null}

\* the request failed, or the response has no text, or text that is no JSON
ServiceFailed(response) ==
    response.kind = "rejects" \/ response.text = "" \/ response.text = "<html>"

\* C6 (as stated): generateLore never rejects, and a missing credential, a
\* failed request and an empty or malformed response all give the pair
\* "Static Interference" / "The data fragment is corrupted. The monolith
\* remains silent."
LoreSamePlaceholder ==
    \A i \in Settled :
        /\ scans[i].at # "failed"
        /\ (~scans[i].client \/ ServiceFailed(scans[i].response))
              => scans[i].data = StaticInterference

\* C6 (amended): generateLore never rejects; without a credential it gives
\* the pair "Signal Lost" / "Neural link to archive offline. (Missing API
\* Key)", and with one a failed request, an empty response text and a text
\* that is no JSON give the pair "Static Interference" / "The data fragment
\* is corrupted. The monolith remains silent."
LoreFallbacks ==
    \A i \in Settled :
        /\ scans[i].at # "failed"
        /\ ~scans[i].client => scans[i].data = SignalLost
        /\ (scans[i].client /\ ServiceFailed(scans[i].response))
              => scans[i].data = StaticInterference

\* a request made with a credential has failed in transport
LoreTransportFailed ==
    \E i \in Settled : scans[i].client /\ scans[i].response.kind = "rejects"

(* ------------------------------------------------------------------ *)
(* Time of day                                                          *)
(* ------------------------------------------------------------------ *)
\* C7: timeOfDay is in [0, 1) in every state and in every stats snapshot;
\* it never equals 1.
TimeBelowOne ==
    /\ 0 <= timeOfDay /\ timeOfDay < DayLen
    /\ 0 <= stats.timeOfDay /\ stats.timeOfDay < DayLen

TimeLabels == {"Deep Night", "Dawn", "Day", "Dusk", "Night"}

\* C8: the label getTimeStr gives is "Deep Night" before hour 5, "Dawn" before
\* hour 9, "Day" before hour 17, "Dusk" before hour 20 and "Night" from then
\* on, and always one of these five.
TimeLabelByThreshold ==
    /\ getTimeStr \in TimeLabels
    /\ \A i \in 1..Len(scans) :
          /\ scans[i].timeStr \in TimeLabels
          /\ scans[i].timeStr =
                IF timeOfDay * 24 < 5 * DayLen THEN "Deep Night"
                ELSE IF timeOfDay * 24 < 9 * DayLen THEN "Dawn"
                ELSE IF timeOfDay * 24 < 17 * DayLen THEN "Day"
                ELSE IF timeOfDay * 24 < 20 * DayLen THEN "Dusk"
                ELSE "Night"

\* a scan has read the label right at hour 20
NightAtTwenty ==
    \E i \in 1..Len(scans) : timeOfDay = AtHour(20) /\ scans[i].timeStr = "Night"

(* ------------------------------------------------------------------ *)
(* The order of a frame, and the POI scan                               *)
(* ------------------------------------------------------------------ *)
\* C9: in every frame the physics step runs first, then the streaming
\* update, then the time-of-day update, and the stats snapshot is emitted
\* once after the three; the physics step works on the chunk table the
\* previous frame's streaming update left.
FrameInOrder ==
    LET order == <<"physics", "chunks", "daynight", "stats">>
    IN  /\ Len(log) <= 4
        /\ log = SubSeq(order, 1, Len(log))
        /\ pc = (IF Len(log) = 4 THEN "idle" ELSE order[Len(log) + 1])
        /\ pc = "chunks" => phys.near = NearObstacles(phys.from, chunks)

\* a frame entered by animate has run to its end
FrameDone == pc = "idle" /\ frames > 0 /\ Len(log) = 4

\* C10: the streaming update reports a point of interest exactly when one of
\* a loaded chunk is within 25 of the player; getClosestPOI is non-null
\* exactly when it was reported; and the point kept is the last one in
\* range in scan order.
PoiReported ==
    Streamed =>
        LET keys == WindowSeq(ChunkOf(position.x), ChunkOf(position.z), RENDER_DISTANCE)
            inRange == {k \in DOMAIN chunks :
                           chunks[k].poi # Null /\ InPoiRange(chunks[k].poi, position)}
        IN  /\ canScan = (inRange # {})
            /\ \A draw \in BOOLEAN : (getClosestPOI(draw) # Null) = canScan
            /\ inRange # {} =>
                  \E i \in 1..Len(keys) :
                      /\ keys[i] \in inRange
                      /\ poiNearby = chunks[keys[i]].poi
                      /\ \A j \in (i + 1)..Len(keys) : keys[j] \notin inRange

\* the streaming update has found a monolith the player walked up to
PoiCameInRange ==
    /\ pc = "daynight"
    /\ canScan /\ ~closure.canScan
    /\ poiNearby # Null

\* the streaming update has lost the monolith the player walked away from
PoiWentOutOfRange ==
    /\ pc = "daynight"
    /\ ~canScan /\ closure.canScan
    /\ poiNearby = Null

\* C11: in the chunk table a run starts with and in the one every streaming
\* update leaves, every chunk holds a point of interest exactly when the seeded
\* draw of its coordinate exceeds 0.97 and the terrain at its local origin is
\* more than 2 above the water level; a chunk with a point of interest has
\* exactly one obstacle of radius 4.0, at the monolith's world position, a
\* chunk without one has none; generating the chunk again, whatever the
\* random draws, gives the same point-of-interest presence.
OnePoiPerChunk ==
    (pc = "daynight" \/ frames + keyEvents = 0) =>
    \A k \in DOMAIN chunks :
        LET wx == k[1] * ChunkLen
            wz == k[2] * ChunkLen
            placed == /\ seededRandomOfChunk(k[1], k[2]) > 97000
                      /\ getHeight(wx, wz) > WATER_LEVEL + 2 * Scale
            big == {i \in 1..Len(chunks[k].obstacles) : chunks[k].obstacles[i].r = 4 * Scale}
        IN  /\ (chunks[k].poi # Null) = placed
            /\ Cardinality(big) = (IF placed THEN 1 ELSE 0)
            /\ placed =>
                  /\ chunks[k].poi.x = wx /\ chunks[k].poi.z = wz
                  /\ \A i \in big : chunks[k].obstacles[i].x = wx
                                    /\ chunks[k].obstacles[i].z = wz
            /\ \A draws \in [1..Len(world.samples) -> BOOLEAN] :
                  (generateChunk(k[1], k[2], draws).poi # Null) = placed

\* a streaming update after the player crossed a chunk line has just
\* generated a chunk with a monolith and its obstacle
PoiChunkGenerated ==
    /\ pc = "daynight"
    /\ ChunkOf(phys.from.x) # ChunkOf(position.x)
    /\ \E k \in DOMAIN chunks :
          /\ Abs(k[1] - ChunkOf(phys.from.x)) > RENDER_DISTANCE
          /\ chunks[k].poi # Null
          /\ \E i \in 1..Len(chunks[k].obstacles) : chunks[k].obstacles[i].r = 4 * Scale

(* ------------------------------------------------------------------ *)
(* Terrain                                                              *)
(* ------------------------------------------------------------------ *)
\* h lies strictly between a and b
StrictlyBetween(h, a, b) == (a < h /\ h < b) \/ (b < h /\ h < a)

\* getHeight has returned at a land point
LandHeight == probe # Null /\ probe.fn = "getHeight" /\ probe.out # Null /\ probe.out.base > 0

Scattered ==
    probe # Null /\ probe.fn = "scatter" /\ probe.out # Null /\ probe.out.kind # "skip"

\* C14 as stated: at every scatter point, in every biome, no boulder is
\* placed and no rock registers an obstacle: an obstacle comes from a tree
\* or a cactus (or is the monolith's).
ScatterNoBoulder ==
    Scattered =>
        /\ probe.out.kind # "boulder"
        /\ probe.out.r > 0 => probe.out.kind \in {"oak", "pine", "sakura", "cactus"}

\* C14 amended: at every scatter point in every biome other than Snow the
\* pebble rule (rVal < 0.15) is taken before the boulder rule (rVal < 0.03)
\* can match, so no rock registers an obstacle there; in Snow a point with
\* rVal < 0.03 places a boulder, which registers an obstacle of 0.8 times its
\* scale; every obstacle of the scatter loop comes from a tree, a cactus or
\* a Snow boulder.
ScatterBoulderOnlyInSnow ==
    Scattered =>
        /\ (probe.out.kind = "boulder")
              = (probe.out.biome = "Snow" /\ probe.s.rVal < (3 * Scale) \div 100)
        /\ probe.out.biome # "Snow" /\ probe.s.rVal < (15 * Scale) \div 100
              => probe.out.kind = "pebble" /\ probe.out.r = 0
        /\ probe.out.kind = "pebble" => probe.out.r = 0
        /\ probe.out.kind = "boulder" => probe.out.r = Div(BoulderScale * 8, 10)
        /\ probe.out.r > 0
              => probe.out.kind \in {"oak", "pine", "sakura", "cactus", "boulder"}

\* a scatter point in Snow with rVal below 0.03 has got its boulder
SnowBoulderPlaced ==
    /\ Scattered
    /\ probe.out.biome = "Snow" /\ probe.s.rVal < (3 * Scale) \div 100
    /\ probe.out.kind = "boulder" /\ probe.out.r > 0

(* ------------------------------------------------------------------ *)
(* The fall from the spawn point                                        *)
(* ------------------------------------------------------------------ *)
\* the frames whose physics step has run, and the time they took (ms)
TicksDone == IF pc = "physics" THEN frames ELSE frames + 1
FallTime == TicksDone * probe.dt

\* grounded at the terrain height of the origin plus the eye height, at the
\* horizontal origin
GroundedAtOrigin ==
    /\ playerOnGround
    /\ position = Vec(0, getHeight(0, 0) + EyeHeight, 0)

\* C13 as stated: with no input and a constant frame time the observer is
\* grounded at terrainHeight(0,0) + 1.6 by the end of 60 ticks (1 second).
FallGroundedInOneSecond ==
    TicksDone >= 60 => GroundedAtOrigin

\* C13 amended: from the initial state, with no input and a constant frame
\* time, the height decreases at every tick until the observer is grounded;
\* at the end of 60 ticks (1 second) it is still airborne, above height 50;
\* by the end of 1.7 seconds it is grounded at terrainHeight(0,0) + 1.6; the
\* horizontal position never changes; once grounded it stays grounded at
\* that height.
FallGroundedLater ==
    /\ position.x = 0 /\ position.z = 0
    /\ TicksDone >= 1 =>
          IF phys.wasOnGround
          THEN GroundedAtOrigin /\ phys.from = position
          ELSE position.y < phys.from.y
    /\ playerOnGround => GroundedAtOrigin
    /\ TicksDone = 60 => ~playerOnGround /\ position.y > 50 * Scale
    /\ FallTime >= 1700 => GroundedAtOrigin

\* the observer has landed and has stayed grounded through a later tick
FallLanded ==
    /\ pc = "idle"
    /\ phys.wasOnGround /\ GroundedAtOrigin
    /\ FallTime >= 1700

(* ------------------------------------------------------------------ *)
(* Chunk lifecycle                                                      *)
(* ------------------------------------------------------------------ *)
\* the keys of the streaming window around the player
WindowKeys ==
    ((ChunkOf(position.x) - RENDER_DISTANCE)..(ChunkOf(position.x) + RENDER_DISTANCE))
        \X ((ChunkOf(position.z) - RENDER_DISTANCE)..(ChunkOf(position.z) + RENDER_DISTANCE))

\* what every step does to the chunk table but for the unloading: only the
\* streaming update changes it, it creates exactly the absent keys of the
\* window and leaves every chunk that stays loaded as it was
LoadStep ==
    IF pc = "chunks"
    THEN /\ WindowKeys \subseteq DOMAIN chunks'
         /\ (DOMAIN chunks' \ DOMAIN chunks) \subseteq WindowKeys
         /\ \A k \in DOMAIN chunks \cap DOMAIN chunks' : chunks'[k] = chunks[k]
    ELSE chunks' = chunks

\* C15 as stated: a chunk is created by the first streaming update in which
\* its coordinate is inside the window, is never regenerated while loaded,
\* and is destroyed by the first later update in which it lies outside the
\* render radius on both axes, and not before.
LifecycleBothAxes ==
    [][/\ LoadStep
       /\ pc = "chunks" =>
             \A k \in DOMAIN chunks :
                 (k \notin DOMAIN chunks')
                     = (/\ Abs(k[1] - ChunkOf(position.x)) > RENDER_DISTANCE
                        /\ Abs(k[2] - ChunkOf(position.z)) > RENDER_DISTANCE)]_vars

\* C15 amended: a chunk is created by the first streaming update in which
\* its coordinate is inside the window, is never regenerated while loaded,
\* and is destroyed by the first later update in which it lies outside the
\* render radius on either axis, and not before.
LifecycleEitherAxis ==
    [][/\ LoadStep
       /\ pc = "chunks" =>
             \A k \in DOMAIN chunks :
                 (k \notin DOMAIN chunks')
                     = (\/ Abs(k[1] - ChunkOf(position.x)) > RENDER_DISTANCE
                        \/ Abs(k[2] - ChunkOf(position.z)) > RENDER_DISTANCE)]_vars

\* a streaming update has created chunks that entered the window and has
\* destroyed a chunk that left it on the x axis alone
ColumnDestroyed ==
    /\ pc = "daynight"
    /\ \E k \in DOMAIN chunks : Abs(k[1] - ChunkOf(phys.from.x)) > RENDER_DISTANCE
    /\ \E k \in (((ChunkOf(phys.from.x) - RENDER_DISTANCE)..(ChunkOf(phys.from.x) + RENDER_DISTANCE))
                    \X {ChunkOf(position.z)}) :
          /\ k \notin DOMAIN chunks
          /\ Abs(k[1] - ChunkOf(position.x)) > RENDER_DISTANCE
          /\ ChunkOf(phys.from.z) = ChunkOf(position.z)

\* C16: in every state between two steps of a frame, and so at every tick
\* boundary, the collider list holds exactly the colliders of the chunks in
\* the chunk table: for each loaded chunk its terrain mesh and, when it has
\* rocks, its stone mesh, and no collider of any other chunk; and the
\* obstacles a physics step has tested all belong to loaded chunks.
CollidersOfLoadedChunks ==
    /\ colliders =
          {[key |-> k, kind |-> "terrain", stones |-> <<>>] : k \in DOMAIN chunks}
              \cup {[key |-> k, kind |-> "stones", stones |-> chunks[k].stones] :
                       k \in {j \in DOMAIN chunks : chunks[j].stones # <<>>}}
    /\ pc = "chunks" =>
          \A i \in 1..Len(phys.near) :
              \E k \in DOMAIN chunks :
                  \E j \in 1..Len(chunks[k].obstacles) : chunks[k].obstacles[j] = phys.near[i]

\* a streaming update has unloaded a column of chunks and loaded another,
\* and the frame has ended
CollidersSwapped ==
    /\ pc = "idle" /\ frames > 0
    /\ ChunkOf(phys.from.x) # ChunkOf(position.x)
    /\ \E c \in colliders : Abs(c.key[1] - ChunkOf(phys.from.x)) > RENDER_DISTANCE

\* the stone mesh of a loaded chunk is among the colliders at a tick boundary
StoneColliderLoaded ==
    /\ pc = "idle" /\ frames > 0
    /\ \E c \in colliders : c.kind = "stones"

(* ------------------------------------------------------------------ *)
(* The physics step on its own                                          *)
(* ------------------------------------------------------------------ *)
\* updatePhysics has returned
Stepped == probe # Null /\ probe.fn = "updatePhysics" /\ probe.out # Null

\* the tentative height after the ground resolution, before the respawn floor
ResolvedHeight ==
    IF probe.out.locals.pushed.y < probe.out.locals.groundHeight + EyeHeight
    THEN probe.out.locals.groundHeight + EyeHeight
    ELSE probe.out.locals.pushed.y

\* C17: when the tentative height after the ground resolution is below -50
\* the committed height is exactly 100 and the committed x and z are the
\* tentative ones; otherwise the resolved height is committed; the committed
\* height is never below -50.
RespawnFloor ==
    Stepped =>
        /\ probe.out.position.x = probe.out.locals.pushed.x
        /\ probe.out.position.z = probe.out.locals.pushed.z
        /\ probe.out.position.y
              = (IF ResolvedHeight < -(50 * Scale) THEN 100 * Scale ELSE ResolvedHeight)
        /\ probe.out.position.y >= -(50 * Scale)

\* a step whose ray missed took the player below -50 and respawned it at 100,
\* while a key moved it horizontally
Respawned ==
    /\ Stepped
    /\ ~probe.out.locals.hit
    /\ ResolvedHeight < -(50 * Scale)
    /\ probe.out.position.y = 100 * Scale
    /\ probe.out.position.x # probe.pos.x

(* ------------------------------------------------------------------ *)
(* The stats snapshot                                                   *)
(* ------------------------------------------------------------------ *)
\* C18: the isFlying flag of the snapshot a frame emits is true exactly when
\* the frame's physics step applied the sustained lift (jump held while
\* airborne with stamina above 5); it is false when the player merely falls
\* or is airborne without lift.
IsFlyingIsLift ==
    (pc = "idle" /\ frames > 0) => (stats.isFlying = phys.lift)

\* the vertical velocity after gravity and the stamina after the sprint drain
\* or the regeneration, which the jump rule of the step starts from
VyBeforeJump == probe.vel.y - 50 * probe.d
StaminaBeforeJump ==
    StaminaStep(probe.stam, KEYS.SPRINT \in probe.keys /\ probe.stam > 0, probe.d)

\* C20: in a step with jump held, a player grounded at the end of the
\* previous step gets the vertical velocity 18 exactly and no flight drain;
\* an airborne one with stamina above 5 gets 70 * dt more vertical velocity
\* and FLIGHT_COST * dt less stamina; an airborne one with stamina at most 5
\* keeps both.  With jump not held the rule changes neither.
VerticalInputRule ==
    Stepped =>
        IF KEYS.JUMP \in probe.keys /\ probe.onGround
        THEN /\ probe.out.locals.vy = 18 * Scale
             /\ probe.out.stamina = StaminaBeforeJump
        ELSE IF KEYS.JUMP \in probe.keys /\ StaminaBeforeJump > 5 * Scale
        THEN /\ probe.out.locals.vy = VyBeforeJump + 70 * probe.d
             /\ probe.out.stamina = StaminaBeforeJump - FLIGHT_COST * probe.d
        ELSE /\ probe.out.locals.vy = VyBeforeJump
             /\ probe.out.stamina = StaminaBeforeJump

\* a step has launched a grounded player that was moving downwards
Launched ==
    /\ Stepped
    /\ KEYS.JUMP \in probe.keys /\ probe.onGround
    /\ probe.vel.y < 0
    /\ probe.out.locals.vy = 18 * Scale

\* a step has lifted an airborne player and drained its stamina
Lifted ==
    /\ Stepped
    /\ KEYS.JUMP \in probe.keys /\ ~probe.onGround
    /\ probe.out.locals.lift
    /\ probe.out.stamina < StaminaBeforeJump

\* a step with jump held has left an airborne player with stamina at most 5
\* without lift
LiftRefused ==
    /\ Stepped
    /\ KEYS.JUMP \in probe.keys /\ ~probe.onGround
    /\ StaminaBeforeJump <= 5 * Scale
    /\ ~probe.out.locals.lift

\* C21: in every step, with the boost key held and stamina above 0 the
\* stamina drains by FLIGHT_COST * 0.4 * dt, not below 0, and the move speed
\* is 18 instead of 10; otherwise the stamina regenerates by REGEN_RATE * dt,
\* not above STAMINA_MAX, also in a step whose lift then drains it.
SprintOrRegen ==
    Stepped =>
        LET boost == KEYS.SPRINT \in probe.keys /\ probe.stam > 0
            first == IF boost THEN Max(0, probe.stam - (FLIGHT_COST * 4 * probe.d) \div 10)
                     ELSE Min(STAMINA_MAX * Scale, probe.stam + REGEN_RATE * probe.d)
            speed == IF boost THEN 18 ELSE 10
        IN  /\ probe.out.stamina
                  = first - (IF probe.out.locals.lift THEN FLIGHT_COST * probe.d ELSE 0)
            /\ KEYS.RIGHT \in probe.keys => probe.out.velocity.x = speed * 20 * probe.d

\* a step with the boost key held has drained the stamina to 0 and moved
\* the player at the boosted speed
SprintDrained ==
    /\ Stepped
    /\ probe.keys = {KEYS.RIGHT, KEYS.SPRINT}
    /\ probe.stam > 0 /\ probe.out.stamina = 0
    /\ probe.out.velocity.x = 18 * 20 * probe.d

\* a step has regenerated the stamina and drained it by the lift
RegenUnderLift ==
    /\ Stepped
    /\ probe.out.locals.lift
    /\ probe.out.stamina = probe.stam + REGEN_RATE * probe.d - FLIGHT_COST * probe.d

(* ------------------------------------------------------------------ *)
(* Obstacle resolution on its own                                       *)
(* ------------------------------------------------------------------ *)
\* updatePhysics has returned on an engine with one obstacle near the player
SteppedByObstacle ==
    Stepped /\ DOMAIN probe.table = {<<0, 0>>} /\ Len(probe.out.locals.near) = 1

\* the same call on an engine without any obstacle
WithoutObstacles ==
    PhysicsStep(probe.pos, probe.vel, probe.onGround, probe.stam, probe.keys, probe.d,
                NoChunks, probe.colls)

\* C22: obstacle resolution moves only the tentative x and z, directly away
\* from the obstacle centre by the penetration depth; the velocity, the
\* tentative height and the stamina are those of the same step without the
\* obstacle, and the obstacle record is as it was.
PushIsPositional ==
    SteppedByObstacle =>
        LET o == probe.out.locals.near[1]
            t == probe.out.locals.tentative
            p == probe.out.locals.pushed
            dx == t.x - o.x
            dz == t.z - o.z
            px == p.x - o.x
            pz == p.z - o.z
            minDist == 700 + o.r
        IN  /\ t = WithoutObstacles.locals.tentative
            /\ p.y = t.y
            /\ probe.out.velocity = WithoutObstacles.velocity
            /\ probe.out.stamina = WithoutObstacles.stamina
            /\ probe.out.position = Vec(p.x, WithoutObstacles.position.y, p.z)
            /\ o = probe.table[<<0, 0>>].obstacles[1]
            /\ p # t =>
                  /\ dx * dx + dz * dz < minDist * minDist
                  /\ px * dx >= 0 /\ pz * dz >= 0
                  /\ Abs(px * dz - pz * dx) <= Abs(dx) + Abs(dz)
                  /\ px * px + pz * pz >= (minDist - Epsilon) * (minDist - Epsilon)
                  /\ px * px + pz * pz <= (minDist + Epsilon) * (minDist + Epsilon)

\* a step has walked the player into the obstacle and pushed it out again,
\* with the velocity it walked in with
PushedOut ==
    /\ SteppedByObstacle
    /\ probe.out.locals.pushed # probe.out.locals.tentative
    /\ probe.out.velocity.x > 0
    /\ probe.out.locals.pushed.x < probe.out.locals.tentative.x

(* ------------------------------------------------------------------ *)
(* Biome classification                                                 *)
(* ------------------------------------------------------------------ *)
\* getBiome has returned
Classified == probe.fn = "getBiome" /\ probe.out # Null

\* C23: getBiome applies its rules in strict precedence: height below
\* WATER_LEVEL + 0.2 is Ocean; else height above 45 is Mountain; else height
\* in (30, 45] with a draw above 0.5 is Snow; else temperature below -0.4 is
\* Desert, above 0.5 Forest, in (0.2, 0.5] Sakura Grove, otherwise Plains; and
\* the result does not depend on the draw when height is not in (30, 45].
BiomePrecedence ==
    Classified =>
        LET h == probe.height
            b == probe.out.biome
            ocean == h < WATER_LEVEL + 200
            mountain == ~ocean /\ h > 45000
            snow == ~ocean /\ ~mountain /\ h > 30000 /\ h <= 45000 /\ probe.draw
            byTemp == ~ocean /\ ~mountain /\ ~snow
        IN  /\ ocean => b = "Ocean"
            /\ mountain => b = "Mountain"
            /\ snow => b = "Snow"
            /\ byTemp /\ world.temp < -400 => b = "Desert"
            /\ byTemp /\ world.temp > 500 => b = "Forest"
            /\ byTemp /\ world.temp > 200 /\ world.temp <= 500 => b = "Sakura Grove"
            /\ byTemp /\ world.temp >= -400 /\ world.temp <= 200 => b = "Plains"
            /\ ~(h > 30000 /\ h <= 45000)
                  => getBiome(probe.x, probe.z, h, TRUE) = getBiome(probe.x, probe.z, h, FALSE)

\* a height above 45 was classified with the draw above 0.5: Mountain, the
\* rule before the Snow band
MountainBeforeSnow ==
    Classified /\ probe.height > 45000 /\ probe.draw /\ probe.out.biome = "Mountain"

\* the band (30, 45] was classified Snow
SnowDrawn == Classified /\ probe.height = 45000 /\ probe.out.biome = "Snow"

\* the classifications of the terrain below the player, over the outcomes of
\* the draw getBiome makes
TerrainBiomes ==
    {getBiome(position.x, position.z, getHeight(position.x, position.z), draw) :
        draw \in BOOLEAN}

\* C24: the biome of the snapshot a frame emits is the classification of the
\* terrain at the player's horizontal position, computed from the terrain
\* elevation there, whatever the player's own altitude.
StatsBiomeOfTerrain ==
    (pc = "idle" /\ frames > 0) => stats.biome \in TerrainBiomes

(* ------------------------------------------------------------------ *)
(* The biome of the nearby point of interest                            *)
(* ------------------------------------------------------------------ *)
\* the classifications of the terrain the nearby monolith stands on
PoiTerrainBiomes ==
    {getBiome(poiNearby.x, poiNearby.z, getHeight(poiNearby.x, poiNearby.z), draw) :
        draw \in BOOLEAN}

\* C25: the biome getClosestPOI returns, which handleScan hands to
\* generateLore, is the biome of the terrain where the monolith stands, and
\* it is never Ocean.
PoiBiomeOfTerrain ==
    \A i \in 1..Len(scans) :
        /\ scans[i].biome \in PoiTerrainBiomes
        /\ scans[i].biome # "Ocean"

(* ------------------------------------------------------------------ *)
(* The terrain under the player                                         *)
(* ------------------------------------------------------------------ *)
\* the terrain mesh of chunk k, centred on the chunk origin, lies under (x, z)
Footprint(k, x, z) ==
    /\ k[1] * ChunkLen - ChunkLen \div 2 <= x /\ x <= k[1] * ChunkLen + ChunkLen \div 2
    /\ k[2] * ChunkLen - ChunkLen \div 2 <= z /\ z <= k[2] * ChunkLen + ChunkLen \div 2

\* C26: after every streaming update some loaded chunk has a footprint that
\* contains the player's horizontal position, and its terrain is a collider;
\* a ground ray misses only in the frame the constructor starts, when no
\* streaming update has run yet.
TerrainUnderObserver ==
    /\ pc = "daynight" =>
          \E k \in DOMAIN chunks :
              /\ Footprint(k, position.x, position.z)
              /\ \E c \in colliders : c.kind = "terrain" /\ c.key = k
    /\ (pc = "chunks" /\ ~phys.hit) => (frames = 0 /\ colliders = {})

\* after a streaming update the player stands in the east half of its chunk
\* (floor), under the mesh of the next chunk east and not under its own, and
\* the frame's ground ray has hit
UnderNeighbourMesh ==
    /\ pc = "daynight"
    /\ phys.hit
    /\ position.x - ChunkOf(position.x) * ChunkLen > ChunkLen \div 2
    /\ ~Footprint(<<ChunkOf(position.x), ChunkOf(position.z)>>, position.x, position.z)
    /\ <<ChunkOf(position.x) + 1, ChunkOf(position.z)>> \in DOMAIN chunks

\* the frame the constructor starts: the ground ray has missed
FirstFrameMiss == pc = "chunks" /\ ~phys.hit /\ frames = 0

(* ------------------------------------------------------------------ *)
(* The neighbourhood obstacle resolution looks at                        *)
(* ------------------------------------------------------------------ *)
\* the circle of obstacle o (radius 0.7 + r) contains the point p
Overlaps(o, p) ==
    /\ Abs(p.x - o.x) < 700 + o.r
    /\ Abs(p.z - o.z) < 700 + o.r
    /\ (p.x - o.x) * (p.x - o.x) + (p.z - o.z) * (p.z - o.z) < (700 + o.r) * (700 + o.r)

\* C27: every obstacle of a loaded chunk whose circle overlaps the tentative
\* position belongs to a chunk of the 3x3 neighbourhood around the chunk
\* (floor) of the position before the move, and is resolved against.
NeighbourhoodCoversOverlaps ==
    Stepped =>
        \A k \in DOMAIN probe.table :
            \A i \in 1..Len(probe.table[k].obstacles) :
                Overlaps(probe.table[k].obstacles[i], probe.out.locals.tentative) =>
                    /\ Abs(k[1] - ChunkOf(probe.pos.x)) <= 1
                    /\ Abs(k[2] - ChunkOf(probe.pos.z)) <= 1
                    /\ \E j \in 1..Len(probe.out.locals.near) :
                          probe.out.locals.near[j] = probe.table[k].obstacles[i]

\* the tentative position is inside an obstacle of a chunk other than the
\* one the player left, and the step has pushed the player out of it
NeighbourObstacleResolved ==
    /\ Stepped
    /\ \E k \in DOMAIN probe.table :
          /\ k # <<ChunkOf(probe.pos.x), ChunkOf(probe.pos.z)>>
          /\ Overlaps(probe.table[k].obstacles[1], probe.out.locals.tentative)
          /\ ~Overlaps(probe.table[k].obstacles[1], probe.out.locals.pushed)

\* the player has left chunk column 0 at full sprint in the longest tick, with
\* a boulder at the nearest place two columns away: more than 40 away still
FullSprintAcrossLine ==
    /\ Stepped
    /\ ChunkOf(probe.pos.x) = 0
    /\ ChunkOf(probe.out.locals.tentative.x) = 1
    /\ <<2, 0>> \in DOMAIN probe.table
    /\ probe.table[<<2, 0>>].obstacles[1].x - probe.out.locals.tentative.x > 40 * Scale

(* ------------------------------------------------------------------ *)
(* Sustained flight                                                     *)
(* ------------------------------------------------------------------ *)
\* the step just taken found the player airborne with the jump key held and
\* applied no lift, the stamina being 5 or less
LiftRefusedInFlight ==
    /\ pc = "idle" /\ PhysicsRan
    /\ phys.jump /\ ~phys.wasOnGround /\ ~phys.lift
    /\ stamina <= 5 * Scale

\* C28: with the jump key held on every tick and the boost key not held, the
\* stamina eventually drops to 5 or below and a tick applies no lift, and the
\* player is grounded again and again.
FlightEnds ==
    /\ <>LiftRefusedInFlight
    /\ []<>playerOnGround

\* the player has landed from a flight that took it more than 1000 up, with
\* the stamina spent
LandedAfterFlight ==
    /\ pc = "idle" /\ PhysicsRan
    /\ playerOnGround /\ ~phys.wasOnGround
    /\ stamina < 10 * Scale

\* the flight has passed 1000 above the ground with lift applied
HighFlight == PhysicsRan /\ phys.lift /\ position.y > 1000 * Scale

(* ------------------------------------------------------------------ *)
(* The course of a scan                                                 *)
(* ------------------------------------------------------------------ *)
\* C29: a scan starts only when a point of interest is reported nearby;
\* scanProgress stays within [0, 100], and at most 95 while a lore call is
\* pending; a call that has settled has its progress timer cleared; and when
\* every scan has ended isScanning is false and scanProgress is 0.
ScanRunsItsCourse ==
    /\ scans # <<>> => canScan
    /\ scanProgress \in 0..100
    /\ InFlight # {} => scanProgress <= 95
    /\ \A i \in Settled : ~scans[i].interval
    /\ scans = <<>> => (~isScanning /\ scanProgress = 0)

(* ------------------------------------------------------------------ *)
(* The lore log                                                         *)
(* ------------------------------------------------------------------ *)
\* the pairs generateLore is declared to return
LorePairs == {Story, SignalLost, StaticInterference}

\* C30: every scan that ends has added exactly one entry at the head of the
\* lore log, the pair generateLore returned (a failure placeholder included),
\* and no other step changes the log.
EveryScanAddsEntry ==
    [][IF Len(scans') < Len(scans)
       THEN \E i \in 1..Len(scans) :
               /\ scans[i].at = "delay"
               /\ generateLore(scans[i].client, scans[i].response).value \in LorePairs
               /\ lore' = <<generateLore(scans[i].client, scans[i].response).value>> \o lore
       ELSE lore' = lore]_vars

====
